---- MODULE Spec2Model ----
(***************************************************************************)
(* Model of the docstring generation core: DocstringGenerator             *)
(* (src/core/generator.py), CodeParser (src/core/parser.py) and            *)
(* DocstringValidator (src/core/validator.py).                              *)
(*                                                                         *)
(* Text is modelled as a sequence of tokens: each token is one piece of    *)
(* text the code searches for (a section marker, a sentinel phrase, a code *)
(* fence, a quote delimiter, a whitespace run) or a run of ordinary text.  *)
(* Python's None is the value PyNone; a dict is a record whose DOMAIN is   *)
(* the set of its keys.                                                     *)
(***************************************************************************)
EXTENDS Naturals, Sequences, FiniteSets, TLC

VARIABLES
    model,          \* self.model is not None (a credential was configured)
    functions,      \* generate_batch: the argument `functions`
    callback,       \* generate_batch: progress_callback is supplied
    results,        \* generate_batch: the local dict `results`
    i,              \* generate_batch: units whose loop iteration has ended
    pc,             \* generate_batch: position in the call
    result,         \* generate_batch: the local `result` of this iteration
    calls,          \* history: indices of units the remote service was called for
    returned,       \* history: what generate_docstring returned, per unit
    progress,       \* history: arguments of the progress_callback firings
    log,            \* history: order of generation, store and callback events
    response_text,  \* _parse_response: the argument
    parsed,         \* _parse_response: the returned dict
    ppc,            \* _parse_response: position in the call
    raw_text,       \* _clean_docstring: the argument
    cleaned,        \* _clean_docstring: the returned text
    cpc,            \* _clean_docstring: position in the call
    prompt_info,    \* _create_prompt: the argument function_info
    style,          \* _create_prompt: the argument style
    prompt,         \* _create_prompt: the returned text
    qpc,            \* _create_prompt: position in the call
    parser,         \* CodeParser: the fields functions, errors and accuracy
    source_code,    \* parse_code: the argument of the last call
    parse_returned, \* parse_code: what the last call returned
    parser_pc,      \* parse_code: "new", then how the last call ended
    earlier,        \* history: what the calls before the last one left
    coverage,       \* history: what get_coverage_stats returned
    body_source,    \* _get_function_body: source_code.split('\n')
    body_node,      \* _get_function_body: lineno and body of the argument node
    stmt_has_end,   \* _get_function_body: statements have an end_lineno
    body_text,      \* _get_function_body: the returned text, by its lines
    bpc,            \* _get_function_body: position in the call
    validator,      \* DocstringValidator: errors, warnings, compliant_count
    v_source,       \* validate_code: the argument source_code
    v_generated,    \* validate_code: the argument generated_docstrings
    v_merged,       \* validate_code: the text written to the temporary file
    v_result,       \* validate_code: the returned dict
    vpc,            \* validate_code: "call", then the path the call took
    v_issues,       \* history: the findings the rule engine reported
    temp_file,      \* validate_code: the file behind temp_path
    v_status,       \* get_file_status: the returned list
    v_colors,       \* get_severity_color: the returned name, per code
    spc,            \* position in the calls that follow validate_code
    splice_routine, \* the insertion routine that is applied
    splice_source,  \* its argument: the source text
    splice_result,  \* its argument: the generation result for the name f
    splice_outputs, \* what the routine returned, application by application
    splice_units,   \* the parse_code calls on the first returned text
    w_generator,    \* MainWindow: self.generator is not None
    w_parser,       \* MainWindow: the fields of self.parser
    w_validator,    \* MainWindow: the fields of self.validator
    w_source_code,  \* MainWindow: self.source_code
    w_parsed_functions,     \* MainWindow: self.parsed_functions
    w_generated_docstrings, \* MainWindow: self.generated_docstrings
    w_validation_results,   \* MainWindow: self.validation_results
    w_threads,      \* the GeneratorThreads that were started and run
    w_progress,     \* MainWindow: the value of self.progress_bar
    w_loads,        \* history: how many texts were loaded
    w_requests,     \* history: how many generation passes were requested
    w_parsed_load,  \* history: the load whose text parsed_functions is of
    w_generated_from, \* history: the pass generated_docstrings is of
    w_validated,    \* history: the text validate_docstrings had validated
    w_saved,        \* history: the text download_output wrote
    w_pc            \* "running", or "aborted" when the process has ended

vars == <<model, functions, callback, results, i, pc, result, calls, returned,
          progress, log, response_text, parsed, ppc, raw_text, cleaned,
          cpc, prompt_info, style, prompt, qpc, parser, source_code,
          parse_returned, parser_pc, earlier, coverage, body_source,
          body_node, stmt_has_end, body_text, bpc, validator, v_source,
          v_generated, v_merged, v_result, vpc, v_issues, temp_file,
          v_status, v_colors, spc, splice_routine, splice_source,
          splice_result, splice_outputs, splice_units, w_generator, w_parser,
          w_validator, w_source_code, w_parsed_functions,
          w_generated_docstrings, w_validation_results, w_threads, w_progress,
          w_loads, w_requests, w_parsed_load, w_generated_from, w_validated,
          w_saved, w_pc>>

batchVars == <<functions, callback, results, i, pc, result, calls, returned,
               progress, log>>
parseVars == <<response_text, parsed, ppc>>
cleanVars == <<raw_text, cleaned, cpc>>
promptVars == <<prompt_info, style, prompt, qpc>>
parserVars == <<parser, source_code, parse_returned, parser_pc, earlier,
               coverage>>
bodyVars == <<body_source, body_node, stmt_has_end, body_text, bpc>>
validatorVars == <<validator, v_source, v_generated, v_merged, v_result, vpc,
                  v_issues, temp_file, v_status, v_colors, spc>>

spliceVars == <<splice_routine, splice_source, splice_result, splice_outputs,
               splice_units>>

windowVars == <<w_generator, w_parser, w_validator, w_source_code,
               w_parsed_functions, w_generated_docstrings,
               w_validation_results, w_threads, w_progress, w_loads,
               w_requests, w_parsed_load, w_generated_from, w_validated, w_saved, w_pc>>

\* The variables of the user interface and of the helpers
uiVars == <<spliceVars, windowVars>>

\* The variables outside DocstringGenerator
laterVars == <<parserVars, bodyVars, validatorVars, uiVars>>

\* The variables outside generate_batch and _parse_response
extraVars == <<cleanVars, promptVars, laterVars>>

\* The variables of DocstringGenerator
generatorVars == <<model, batchVars, parseVars, cleanVars, promptVars>>

\* The variables outside parse_code and get_coverage_stats
nonParserVars == <<generatorVars, bodyVars, validatorVars, uiVars>>

----------------------------------------------------------------------------
(* Bounds *)

MaxUnits == 3
MaxLen == 4
MaxSection == 2
MaxParams == 2
MaxLines == 3
MaxBodyLines == 12

----------------------------------------------------------------------------
(* Text *)

PyNone == <<"<None>">>

DOCSTRING == "DOCSTRING:"
FIXED_CODE == "FIXED_CODE:"
ERRORS_FOUND == "ERRORS_FOUND:"
NoFixesNeeded == "No fixes needed"
NoneWord == "None"
FencePython == "<fence python>"   \* the text ```python
Fence == "<fence>"                \* the text ```
TripleDouble == "<triple double>" \* three double quotes
TripleSingle == "<triple single>" \* three single quotes
Newline == "\n"
Hello == "Hello."

Tokens == {DOCSTRING, FIXED_CODE, ERRORS_FOUND, NoFixesNeeded, NoneWord,
           FencePython, Fence, TripleDouble, TripleSingle, Newline, Hello}

\* str.replace(tok, "")
Remove(s, tok) == SelectSeq(s, LAMBDA t : t /= tok)

\* tok in s
Contains(s, tok) == \E k \in 1..Len(s) : s[k] = tok

\* str.strip()
Strip(s) ==
    LET keep == {k \in 1..Len(s) : s[k] /= Newline}
    IN  IF keep = {} THEN <<>>
        ELSE LET lo == CHOOSE k \in keep : \A j \in keep : k <= j
                 hi == CHOOSE k \in keep : \A j \in keep : k >= j
             IN  SubSeq(s, lo, hi)

\* str.startswith(tok), str.endswith(tok)
StartsWith(s, tok) == Len(s) > 0 /\ Head(s) = tok
EndsWith(s, tok) == Len(s) > 0 /\ s[Len(s)] = tok

\* s[3:] and s[:-3] for a three-character delimiter: one token
DropFirst(s) == Tail(s)
DropLast(s) == SubSeq(s, 1, Len(s) - 1)

\* str.split(sep)
RECURSIVE Split(_, _)
Split(s, sep) ==
    IF ~Contains(s, sep) THEN <<s>>
    ELSE LET k == CHOOSE n \in 1..Len(s) :
                      s[n] = sep /\ \A j \in 1..(n - 1) : s[j] /= sep
         IN  <<SubSeq(s, 1, k - 1)>> \o Split(SubSeq(s, k + 1, Len(s)), sep)

----------------------------------------------------------------------------
(* DocstringGenerator._clean_docstring *)

_clean_docstring(docstring_text) ==
    LET t1 == Remove(docstring_text, FencePython)
        t2 == Remove(t1, Fence)
        t3 == Strip(t2)
        t4 == IF StartsWith(t3, TripleDouble) THEN DropFirst(t3) ELSE t3
        t5 == IF EndsWith(t4, TripleDouble) THEN DropLast(t4) ELSE t4
        t6 == IF StartsWith(t5, TripleSingle) THEN DropFirst(t5) ELSE t5
        t7 == IF EndsWith(t6, TripleSingle) THEN DropLast(t6) ELSE t6
    IN  Strip(t7)

----------------------------------------------------------------------------
(* DocstringGenerator._parse_response *)

\* _parse_response with result["docstring"] starting as None and not set
\* when ERRORS_FOUND: is missing
_parse_response_unset(text) ==
    LET sections == Split(text, FIXED_CODE)
    IN  IF Len(sections) >= 2
        THEN LET docstring_part == Strip(Remove(sections[1], DOCSTRING))
                 remaining == sections[2]
                 errors_split == Split(remaining, ERRORS_FOUND)
             IN  IF Len(errors_split) >= 2
                 THEN LET fixed_code == Strip(errors_split[1])
                          errors_found == Strip(errors_split[2])
                      IN  [docstring |-> _clean_docstring(docstring_part),
                           fixed_code |->
                               IF fixed_code /= <<>>
                                  /\ ~Contains(fixed_code, NoFixesNeeded)
                               THEN fixed_code ELSE PyNone,
                           errors |->
                               IF errors_found /= <<>>
                                  /\ ~Contains(errors_found, NoneWord)
                               THEN <<errors_found>> ELSE <<>>]
                 ELSE [docstring |-> PyNone,
                       fixed_code |-> PyNone,
                       errors |-> <<>>]
        ELSE [docstring |-> _clean_docstring(Strip(text)),
              fixed_code |-> PyNone,
              errors |-> <<>>]

\* _parse_response falling back to the whole response when ERRORS_FOUND: is
\* missing
_parse_response_whole(text) ==
    LET sections == Split(text, FIXED_CODE)
    IN  IF Len(sections) >= 2
        THEN LET docstring_part == Strip(Remove(sections[1], DOCSTRING))
                 remaining == sections[2]
                 errors_split == Split(remaining, ERRORS_FOUND)
             IN  IF Len(errors_split) >= 2
                 THEN LET fixed_code == Strip(errors_split[1])
                          errors_found == Strip(errors_split[2])
                      IN  [docstring |-> _clean_docstring(docstring_part),
                           fixed_code |->
                               IF fixed_code /= <<>>
                                  /\ ~Contains(fixed_code, NoFixesNeeded)
                               THEN fixed_code ELSE PyNone,
                           errors |->
                               IF errors_found /= <<>>
                                  /\ ~Contains(errors_found, NoneWord)
                               THEN <<errors_found>> ELSE <<>>]
                 ELSE [docstring |-> _clean_docstring(Strip(text)),
                       fixed_code |-> PyNone,
                       errors |-> <<>>]
        ELSE [docstring |-> _clean_docstring(Strip(text)),
              fixed_code |-> PyNone,
              errors |-> <<>>]

_parse_response(text) ==
    LET sections == Split(text, FIXED_CODE)
    IN  IF Len(sections) >= 2
        THEN LET docstring_part == Strip(Remove(sections[1], DOCSTRING))
                 remaining == sections[2]
                 errors_split == Split(remaining, ERRORS_FOUND)
             IN  IF Len(errors_split) >= 2
                 THEN LET fixed_code == Strip(errors_split[1])
                          errors_found == Strip(errors_split[2])
                      IN  [docstring |-> _clean_docstring(docstring_part),
                           fixed_code |->
                               IF fixed_code /= <<>>
                                  /\ ~Contains(fixed_code, NoFixesNeeded)
                               THEN fixed_code ELSE PyNone,
                           errors |->
                               IF errors_found /= <<>>
                                  /\ ~Contains(errors_found, NoneWord)
                               THEN <<errors_found>> ELSE <<>>]
                 ELSE [docstring |-> _clean_docstring(docstring_part),
                       fixed_code |-> PyNone,
                       errors |-> <<>>]
        ELSE [docstring |-> _clean_docstring(Strip(text)),
              fixed_code |-> PyNone,
              errors |-> <<>>]

----------------------------------------------------------------------------
(* Units and the remote service *)

Names == {"f", "g"}

\* FunctionInfo.existing_docstring as ast.get_docstring gives it: None, the
\* empty text of an empty literal, or the text of the literal
DoesNothing == <<"Does nothing.">>
Docstrings == {PyNone, <<>>, DoesNothing}

FunctionInfo == [name : Names, existing_docstring : Docstrings]

\* Python truth of `function_info.existing_docstring`
Truthy(x) == x /= PyNone /\ x /= <<>>

\* The response of the scenario of the specification
ScenarioResponse ==
    <<DOCSTRING, Newline, Hello, Newline, FIXED_CODE, Newline, NoFixesNeeded,
      Newline, ERRORS_FOUND, Newline, NoneWord>>

\* A response that reports a fix and an error
FixResponse ==
    <<DOCSTRING, Hello, FIXED_CODE, Hello, ERRORS_FOUND, Hello>>

\* response.text of a successful call; str(e) of a failed one
ServiceResponses == {ScenarioResponse, FixResponse}
FailureMessages == {"timeout", "quota exceeded"}

----------------------------------------------------------------------------
(* DocstringGenerator.generate_docstring, one definition per return *)

NoKeyResult ==
    [docstring |-> <<"Error: No API key configured">>,
     fixed_code |-> PyNone,
     errors |-> <<<<"API key not set">>>>]

\* The return for a documented unit without its 'status' key
ExistingResultNoStatus(function_info) ==
    [docstring |-> function_info.existing_docstring,
     fixed_code |-> PyNone,
     errors |-> <<>>]

ExistingResult(function_info) ==
    [docstring |-> function_info.existing_docstring,
     fixed_code |-> PyNone,
     errors |-> <<>>,
     status |-> "existing"]

GeneratedResult(text) ==
    LET r == _parse_response(text)
    IN  [docstring |-> r.docstring,
         fixed_code |-> r.fixed_code,
         errors |-> r.errors,
         status |-> "generated"]

ErrorResult(e) ==
    [docstring |-> <<"Error generating docstring: ", e>>,
     fixed_code |-> PyNone,
     errors |-> <<<<e>>>>,
     status |-> "error"]

----------------------------------------------------------------------------
(* DocstringGenerator.__init__ and generate_batch *)

UnitSeqs == UNION {[1..n -> FunctionInfo] : n \in 0..MaxUnits}

EmptyDict == <<>>

\* results.setdefault(key, value)
DictSetDefault(d, key, value) ==
    [k \in DOMAIN d \cup {key} |-> IF k \in DOMAIN d THEN d[k] ELSE value]

\* results[key] = value
DictSet(d, key, value) ==
    [k \in DOMAIN d \cup {key} |-> IF k = key THEN value ELSE d[k]]

total == Len(functions)
func == functions[i + 1]

\* No _clean_docstring call is under way
CleanIdle ==
    /\ raw_text = <<>>
    /\ cleaned = <<>>
    /\ cpc = "idle"

\* No _create_prompt call is under way
PromptIdle ==
    /\ prompt_info = [name |-> "f", args |-> <<>>, returns |-> PyNone]
    /\ style = "Google"
    /\ prompt = <<>>
    /\ qpc = "idle"

\* The state after CodeParser(): no parse_code call was made
ParserIdle ==
    /\ parser = [functions |-> <<>>, errors |-> <<>>, accuracy |-> 0]
    /\ source_code = <<>>
    /\ parse_returned = <<>>
    /\ parser_pc = "new"
    /\ earlier = [functions |-> FALSE, errors |-> FALSE]
    /\ coverage = <<>>

\* No _get_function_body call is under way
BodyIdle ==
    /\ body_source = <<>>
    /\ body_node = [lineno |-> 1, body_ends |-> <<>>]
    /\ stmt_has_end = TRUE
    /\ body_text = <<>>
    /\ bpc = "idle"

\* The state after DocstringValidator(): no validate_code call was made
ValidatorIdle ==
    /\ validator = [errors |-> <<>>, warnings |-> <<>>, compliant_count |-> 0]
    /\ v_source = <<>>
    /\ v_generated = [is_none |-> TRUE, items |-> EmptyDict]
    /\ v_merged = <<>>
    /\ v_result = [errors |-> <<>>, warnings |-> <<>>, compliant |-> 0,
                   total_issues |-> 0,
                   summary |-> [compliant |-> 0, warnings |-> 0, errors |-> 0]]
    /\ vpc = "idle"
    /\ v_issues = <<>>
    /\ temp_file = "none"
    /\ v_status = <<>>
    /\ v_colors = EmptyDict
    /\ spc = "idle"

\* No insertion routine was applied
SpliceIdle ==
    /\ splice_routine = "none"
    /\ splice_source = <<>>
    /\ splice_result = EmptyDict
    /\ splice_outputs = <<>>
    /\ splice_units = <<>>

\* No MainWindow was made
WindowIdle ==
    /\ w_generator = FALSE
    /\ w_parser = [functions |-> <<>>, errors |-> <<>>, accuracy |-> 0]
    /\ w_validator = [errors |-> <<>>, warnings |-> <<>>, compliant_count |-> 0]
    /\ w_source_code = <<>>
    /\ w_parsed_functions = <<>>
    /\ w_generated_docstrings = EmptyDict
    /\ w_validation_results = EmptyDict
    /\ w_threads = {}
    /\ w_progress = 0
    /\ w_loads = 0
    /\ w_requests = 0
    /\ w_parsed_load = 0
    /\ w_generated_from = [load |-> 0, request |-> 0]
    /\ w_validated = [load |-> 0, from |-> [load |-> 0, request |-> 0],
                      merged |-> <<>>]
    /\ w_saved = [load |-> 0, from |-> [load |-> 0, request |-> 0],
                  output |-> <<>>]
    /\ w_pc = "idle"

\* Nothing happened in the user interface and in the helpers
UiIdle == SpliceIdle /\ WindowIdle

\* No call outside DocstringGenerator is under way
LaterIdle == ParserIdle /\ BodyIdle /\ ValidatorIdle /\ UiIdle

\* No call outside generate_batch and _parse_response is under way
ExtraIdle == CleanIdle /\ PromptIdle /\ LaterIdle

\* The state after DocstringGenerator(api_key): self.model is set iff a key
\* was passed or configured
Init ==
    /\ model \in BOOLEAN
    /\ functions = <<>>
    /\ callback = FALSE
    /\ results = EmptyDict
    /\ i = 0
    /\ pc = "idle"
    /\ result = NoKeyResult
    /\ calls = <<>>
    /\ returned = <<>>
    /\ progress = <<>>
    /\ log = <<>>
    /\ response_text = <<>>
    /\ parsed = _parse_response(<<>>)
    /\ ppc = "idle"
    /\ ExtraIdle

\* generate_batch is called: results = {}, total = len(functions). Everything
\* but self.model is local to the call, so a second call starts as this one.
BatchCall ==
    /\ pc = "idle"
    /\ \E fs \in UnitSeqs : functions' = fs
    /\ \E cb \in BOOLEAN : callback' = cb
    /\ results' = EmptyDict
    /\ i' = 0
    /\ pc' = "generate"
    /\ calls' = <<>>
    /\ returned' = <<>>
    /\ progress' = <<>>
    /\ log' = <<>>
    /\ UNCHANGED <<model, result>>
    /\ UNCHANGED <<parseVars, extraVars>>

\* One call of self.model.generate_content for the unit of this iteration:
\* it returned `text` (ok) or raised an exception whose str() is `text`
Call(ok, text) == [unit |-> i + 1, ok |-> ok, text |-> text]

\* What every return of generate_docstring leaves in generate_batch; `made`
\* is the sequence of remote calls it made
Returns(r, made) ==
    /\ result' = r
    /\ calls' = calls \o made
    /\ log' = Append(log, <<"generate", i + 1>>)
    /\ pc' = "store"
    /\ UNCHANGED <<model, functions, callback, results, i, returned, progress>>
    /\ UNCHANGED <<parseVars, extraVars>>

\* generate_docstring: `if not self.model`
GenerateNoModel ==
    /\ pc = "generate" /\ i < total
    /\ ~model
    /\ Returns(NoKeyResult, <<>>)

\* generate_docstring: `if function_info.existing_docstring`
GenerateExisting ==
    /\ pc = "generate" /\ i < total
    /\ model
    /\ Truthy(func.existing_docstring)
    /\ Returns(ExistingResult(func), <<>>)

\* generate_docstring: the remote call returns a response
GenerateOk ==
    /\ pc = "generate" /\ i < total
    /\ model
    /\ ~Truthy(func.existing_docstring)
    /\ \E text \in ServiceResponses :
           Returns(GeneratedResult(text), <<Call(TRUE, text)>>)

\* A remote call that raises and is made again
GenerateFailRetried ==
    /\ pc = "generate" /\ i < total
    /\ model
    /\ ~Truthy(func.existing_docstring)
    /\ \E e \in FailureMessages :
           Returns(ErrorResult(e), <<Call(FALSE, e), Call(FALSE, e)>>)

\* A remote call whose exception leaves generate_batch
GenerateFailPropagates ==
    /\ pc = "generate" /\ i < total
    /\ model
    /\ ~Truthy(func.existing_docstring)
    /\ \E e \in FailureMessages : calls' = Append(calls, Call(FALSE, e))
    /\ log' = Append(log, <<"generate", i + 1>>)
    /\ pc' = "done"
    /\ UNCHANGED <<model, functions, callback, results, i, result, returned,
                   progress>>
    /\ UNCHANGED <<parseVars, extraVars>>

\* generate_docstring: the remote call raises
GenerateFail ==
    /\ pc = "generate" /\ i < total
    /\ model
    /\ ~Truthy(func.existing_docstring)
    /\ \E e \in FailureMessages :
           Returns(ErrorResult(e), <<Call(FALSE, e)>>)

\* results[func.name] = result
Store ==
    /\ pc = "store"
    /\ results' = DictSet(results, func.name, result)
    /\ returned' = Append(returned, result)
    /\ log' = Append(log, <<"store", i + 1>>)
    /\ pc' = "progress"
    /\ UNCHANGED <<model, functions, callback, i, result, calls, progress>>
    /\ UNCHANGED <<parseVars, extraVars>>

\* progress_callback(i, total): the index in place of the count
ProgressZeroBased ==
    /\ pc = "progress"
    /\ callback
    /\ progress' = Append(progress, <<i, total>>)
    /\ log' = Append(log, <<"progress", i + 1>>)
    /\ i' = i + 1
    /\ pc' = "generate"
    /\ UNCHANGED <<model, functions, callback, results, result, calls, returned>>
    /\ UNCHANGED <<parseVars, extraVars>>

\* `if progress_callback: progress_callback(i + 1, total)`, callback supplied
Progress ==
    /\ pc = "progress"
    /\ callback
    /\ progress' = Append(progress, <<i + 1, total>>)
    /\ log' = Append(log, <<"progress", i + 1>>)
    /\ i' = i + 1
    /\ pc' = "generate"
    /\ UNCHANGED <<model, functions, callback, results, result, calls, returned>>
    /\ UNCHANGED <<parseVars, extraVars>>

\* `if progress_callback:` with no callback supplied
NoProgress ==
    /\ pc = "progress"
    /\ ~callback
    /\ i' = i + 1
    /\ pc' = "generate"
    /\ UNCHANGED <<model, functions, callback, results, result, calls, returned,
                   progress, log>>
    /\ UNCHANGED <<parseVars, extraVars>>

\* `return results`
BatchReturn ==
    /\ pc = "generate" /\ i = total
    /\ pc' = "done"
    /\ UNCHANGED <<model, functions, callback, results, i, result, calls,
                   returned, progress, log>>
    /\ UNCHANGED <<parseVars, extraVars>>

\* generate_docstring(func, style)
GenerateDocstring ==
    \/ GenerateNoModel
    \/ GenerateExisting
    \/ GenerateOk
    \/ GenerateFail

\* A step of a generate_batch call that has begun
BatchStep ==
    \/ GenerateDocstring
    \/ Store
    \/ Progress
    \/ NoProgress
    \/ BatchReturn

Next ==
    \/ BatchCall
    \/ BatchStep

Spec == Init /\ [][Next]_vars

----------------------------------------------------------------------------
(* _parse_response applied to every response text up to MaxLen tokens and  *)
(* to every response of the requested shape with sections up to MaxSection *)

\* Responses of the requested shape: the three markers in order, each followed
\* by its section
SectionTokens == {NoFixesNeeded, NoneWord, Hello, Newline}
SectionTexts == UNION {[1..n -> SectionTokens] : n \in 0..MaxSection}
DocTexts == {<<Newline, Hello, Newline>>, <<TripleDouble, Hello, TripleDouble>>}
StructuredResponses ==
    {<<DOCSTRING>> \o d \o <<FIXED_CODE>> \o f \o <<ERRORS_FOUND>> \o e :
        d \in DocTexts, f \in SectionTexts, e \in SectionTexts}

Responses ==
    UNION {[1..n -> Tokens] : n \in 0..MaxLen}
        \cup ServiceResponses \cup StructuredResponses

InitParse ==
    /\ model = TRUE
    /\ functions = <<>>
    /\ callback = FALSE
    /\ results = EmptyDict
    /\ i = 0
    /\ pc = "idle"
    /\ result = NoKeyResult
    /\ calls = <<>>
    /\ returned = <<>>
    /\ progress = <<>>
    /\ log = <<>>
    /\ response_text \in Responses
    /\ parsed = _parse_response(<<>>)
    /\ ppc = "call"
    /\ ExtraIdle

ParseResponse ==
    /\ ppc = "call"
    /\ parsed' = _parse_response(response_text)
    /\ ppc' = "return"
    /\ UNCHANGED <<model, response_text>>
    /\ UNCHANGED <<batchVars, extraVars>>

NextParse == ParseResponse

SpecParse == InitParse /\ [][NextParse]_vars

----------------------------------------------------------------------------
(* _clean_docstring applied to every text up to MaxLen tokens *)

\* A generator with a credential and no generate_batch call under way
GeneratorIdle ==
    /\ model = TRUE
    /\ functions = <<>>
    /\ callback = FALSE
    /\ results = EmptyDict
    /\ i = 0
    /\ pc = "idle"
    /\ result = NoKeyResult
    /\ calls = <<>>
    /\ returned = <<>>
    /\ progress = <<>>
    /\ log = <<>>

\* No _parse_response call is under way
ParseIdle ==
    /\ response_text = <<>>
    /\ parsed = _parse_response(<<>>)
    /\ ppc = "idle"

Texts == UNION {[1..n -> Tokens] : n \in 0..MaxLen}

InitClean ==
    /\ GeneratorIdle
    /\ ParseIdle
    /\ PromptIdle
    /\ LaterIdle
    /\ raw_text \in Texts
    /\ cleaned = <<>>
    /\ cpc = "call"

CleanDocstring ==
    /\ cpc = "call"
    /\ cleaned' = _clean_docstring(raw_text)
    /\ cpc' = "return"
    /\ UNCHANGED <<model, raw_text>>
    /\ UNCHANGED <<batchVars, parseVars, promptVars, laterVars>>

NextClean == CleanDocstring

SpecClean == InitClean /\ [][NextClean]_vars

----------------------------------------------------------------------------
(* CodeParser._get_annotation and DocstringGenerator._create_prompt *)

\* The annotation of a parameter or of the return value in the syntax tree:
\* None when there is none, otherwise the expression, here by its source text
IntAnnotation == <<"int">>
NoneAnnotation == <<"None">>
Annotations == {PyNone, IntAnnotation, NoneAnnotation}

\* ast.unparse(annotation): the source text of the expression
Unparse(annotation) == annotation

\* CodeParser._get_annotation
_get_annotation(annotation) ==
    IF annotation = PyNone THEN PyNone ELSE Unparse(annotation)

\* The loop over node.args.args of CodeParser._get_function_info
ArgsOf(arguments) ==
    [k \in 1..Len(arguments) |->
        [name |-> arguments[k].arg,
         type |-> _get_annotation(arguments[k].annotation)]]

\* str(x) as an f-string renders a value: None gives the text None
Str(x) == IF x = PyNone THEN <<"None">> ELSE x

\* sep.join(items)
RECURSIVE Join(_, _)
Join(items, sep) ==
    IF items = <<>> THEN <<>>
    ELSE IF Len(items) = 1 THEN items[1]
    ELSE items[1] \o <<sep>> \o Join(Tail(items), sep)

ArgumentsLabel == "Arguments: "
ReturnTypeLabel == "Return Type: "

\* f"{arg['name']}: {arg['type']}"
ArgItem(arg) == <<arg.name, ": ">> \o Str(arg.type)

\* DocstringGenerator._create_prompt: the lines of the request that depend on
\* the arguments, each fixed piece of text one token
_create_prompt(info, st) ==
    LET args_str == Join([k \in 1..Len(info.args) |-> ArgItem(info.args[k])],
                         ", ")
    IN  <<"Generate a ", st, " style docstring for this Python function.",
          "Function Name: ", info.name, ArgumentsLabel>>
            \o args_str
            \o <<ReturnTypeLabel>> \o Str(info.returns)
            \o <<"Requirements: 1. Follow ", st, " style docstring format">>

Styles == {"Google", "NumPy", "reST"}
ParamNames == {"x", "y"}
Arguments ==
    UNION {[1..n -> [arg : ParamNames, annotation : Annotations]] :
               n \in 0..MaxParams}

InitPrompt ==
    /\ GeneratorIdle
    /\ ParseIdle
    /\ CleanIdle
    /\ LaterIdle
    /\ \E nm \in Names, arguments \in Arguments, ret \in Annotations :
           prompt_info = [name |-> nm,
                          args |-> ArgsOf(arguments),
                          returns |-> _get_annotation(ret)]
    /\ style \in Styles
    /\ prompt = <<>>
    /\ qpc = "call"

CreatePrompt ==
    /\ qpc = "call"
    /\ prompt' = _create_prompt(prompt_info, style)
    /\ qpc' = "return"
    /\ UNCHANGED <<model, prompt_info, style>>
    /\ UNCHANGED <<batchVars, parseVars, cleanVars, laterVars>>

NextPrompt == CreatePrompt

SpecPrompt == InitPrompt /\ [][NextPrompt]_vars

----------------------------------------------------------------------------
(* Source text, as CodeParser sees it *)

\* A source text is the sequence of its lines, source_code.split('\n'); a
\* line is its indentation depth and what it says.  Three kinds of line open
\* a block and four are complete statements.
DefLine == "def f():"
AsyncDefLine == "async def f():"
ClassLine == "class C:"
DocLine == "<string literal: Does nothing.>"
BlankDocLine == "<string literal: blank>"
PassLine == "pass"
InlineDefLine == "def f(): pass"

Headers == {DefLine, AsyncDefLine, ClassLine}
Forms == Headers \cup {DocLine, BlankDocLine, PassLine, InlineDefLine}

\* The texts of n lines whose every line is indented at most one step deeper
\* than the line before it
Lines == [indent : 0..(MaxLines - 1), form : Forms]

RECURSIVE SourcesOfLen(_)
SourcesOfLen(n) ==
    IF n = 0 THEN {<<>>}
    ELSE {Append(pair[1], pair[2]) :
              pair \in {p \in SourcesOfLen(n - 1) \X Lines :
                            p[2].indent <= IF p[1] = <<>> THEN 0
                                           ELSE p[1][Len(p[1])].indent + 1}}

\* A text whose expression nesting exhausts the recursion limit of the
\* syntax tree construction
TooDeepLine == "<attribute chain too deep>"
TooDeep == <<[indent |-> 0, form |-> TooDeepLine]>>

\* The texts of at most n lines, and the too deeply nested one
SourcesUpTo(n) == UNION {SourcesOfLen(m) : m \in 0..n} \cup {TooDeep}

\* Lines that are no statement: three quotes alone on a line, and a line of
\* documentation text.  The insertion routines write a docstring as three
\* such lines; Fold makes the one statement of them
QuoteLine == "<quotes>"
DoesNothingText == "Does nothing."
UseDefText == "Use def to define."
ErrorText == "Error generating docstring: timeout"
TextLines == {DoesNothingText, UseDefText, ErrorText}
Fragments == {QuoteLine} \cup TextLines

\* The first line that breaks the block structure, 0 if there is none: a
\* line after a header that is not one step deeper, a line after a statement
\* that is deeper, the end of the text right after a header, or a line that
\* is no statement
FirstBadLine(src) ==
    LET bad == {k \in 1..(Len(src) + 1) :
                    \/ k <= Len(src) /\ src[k].form \in Fragments
                    \/ /\ k > 1
                       /\ IF src[k - 1].form \in Headers
                          THEN k = Len(src) + 1
                               \/ src[k].indent /= src[k - 1].indent + 1
                          ELSE k <= Len(src)
                               /\ src[k].indent > src[k - 1].indent}
    IN  IF bad = {} THEN 0 ELSE CHOOSE k \in bad : \A m \in bad : k <= m

\* ast.parse(source_code): what it raises, "" when it returns a tree
AstParseRaises(src) ==
    IF src = TooDeep THEN "RecursionError"
    ELSE IF FirstBadLine(src) /= 0 THEN "SyntaxError"
    ELSE ""

\* str(e) of the exception ast.parse raised
AstParseMessage(src) ==
    IF src = TooDeep
    THEN "maximum recursion depth exceeded during ast construction"
    ELSE IF FirstBadLine(src) <= Len(src)
            /\ src[FirstBadLine(src)].form \in Fragments
    THEN IF src[FirstBadLine(src)].form = QuoteLine
         THEN "unterminated triple-quoted string literal"
         ELSE "invalid syntax"
    ELSE IF FirstBadLine(src) = Len(src) + 1
            \/ src[FirstBadLine(src) - 1].form \in Headers
    THEN "expected an indented block"
    ELSE "unexpected indent"

\* The source text can be parsed
Parseable(src) == src /= TooDeep /\ FirstBadLine(src) = 0

\* The syntax tree: a statement is the number of its line, the module is 0.
\* end_lineno of the statement that starts on line k
EndLineno(src, k) ==
    IF k /= 0 /\ src[k].form \notin Headers THEN k
    ELSE CHOOSE j \in k..Len(src) :
             /\ \A m \in (k + 1)..j : k = 0 \/ src[m].indent > src[k].indent
             /\ j < Len(src) => k /= 0 /\ src[j + 1].indent <= src[k].indent

\* node.body of the module, a class or a function whose body is a block
BlockBody(src, k) ==
    LET depth == IF k = 0 THEN 0 ELSE src[k].indent + 1
    IN  SelectSeq([j \in 1..Len(src) |-> j],
                  LAMBDA j : /\ j > k
                             /\ j <= EndLineno(src, k)
                             /\ src[j].indent = depth)

\* ast.iter_child_nodes(node), statements only
ChildNodes(src, k) ==
    IF k = 0 \/ src[k].form \in Headers THEN BlockBody(src, k) ELSE <<>>

\* ast.walk(tree): breadth first, from a queue that starts with the tree
RECURSIVE Walk(_, _)
Walk(src, todo) ==
    IF todo = <<>> THEN <<>>
    ELSE <<Head(todo)>> \o Walk(src, Tail(todo) \o ChildNodes(src, Head(todo)))

\* isinstance(node, ast.FunctionDef)
IsFunctionDef(src, k) == k /= 0 /\ src[k].form \in {DefLine, InlineDefLine}

\* The node is a definition of a function: def or async def
IsFunctionDefinition(src, k) ==
    k /= 0 /\ src[k].form \in {DefLine, AsyncDefLine, InlineDefLine}

\* Documentation texts that a generation pass can hand over
UseDef == <<"Use def to define.">>
GenerationError == <<"Error generating docstring: ", "timeout">>

\* The lines that the insertion routines add for a docstring: the opening
\* quotes, the text and the closing quotes, kept as the one statement they
\* are
DoesNothingBlock == "<string literal block: Does nothing.>"
UseDefDocLine == "<string literal: Use def to define.>"
ErrorDocLine == "<string literal: Error generating docstring: timeout>"

\* The statement that the three lines quotes, text, quotes are
BlockOf(text) ==
    IF text = DoesNothingText THEN DoesNothingBlock
    ELSE IF text = UseDefText THEN UseDefDocLine
    ELSE ErrorDocLine

\* The text by its statements: three lines that are quotes, a line of
\* documentation text and quotes are the one string literal they spell
RECURSIVE Fold(_)
Fold(lines) ==
    IF lines = <<>> THEN <<>>
    ELSE IF /\ Len(lines) >= 3
            /\ lines[1].form = QuoteLine
            /\ lines[2].form \in TextLines
            /\ lines[3].form = QuoteLine
    THEN <<[indent |-> lines[1].indent, form |-> BlockOf(lines[2].form)]>>
             \o Fold(SubSeq(lines, 4, Len(lines)))
    ELSE <<Head(lines)>> \o Fold(Tail(lines))

\* ast.get_docstring(node): the cleaned text of the first statement of the
\* body when it is a string literal, None otherwise
GetDocstring(src, k) ==
    IF src[k].form = InlineDefLine THEN PyNone
    ELSE IF src[k + 1].form = DocLine THEN DoesNothing
    ELSE IF src[k + 1].form = BlankDocLine THEN <<>>
    ELSE IF src[k + 1].form = DoesNothingBlock THEN DoesNothing
    ELSE IF src[k + 1].form = UseDefDocLine THEN UseDef
    ELSE IF src[k + 1].form = ErrorDocLine THEN GenerationError
    ELSE PyNone

----------------------------------------------------------------------------
(* CodeParser *)

\* lines[a:b] of Python, on a sequence
Slice(seq, a, b) ==
    SubSeq(seq, a + 1, IF b < Len(seq) THEN b ELSE Len(seq))

\* The size of the window _get_function_body takes when the last statement
\* has no end_lineno
BodyWindow == 10

\* _get_function_body whose window is the declaration line and ten more
_get_function_body_eleven(lineno, body_ends, has_end_lineno, lines) ==
    LET start_line == lineno - 1
        end_line == IF body_ends /= <<>>
                    THEN IF has_end_lineno THEN body_ends[Len(body_ends)]
                         ELSE start_line + BodyWindow + 1
                    ELSE start_line + 1
    IN  Slice(lines, start_line, end_line)

\* CodeParser._get_function_body, from node.lineno, the end_lineno of the
\* statements of node.body, whether statements have an end_lineno at all, and
\* source_code.split('\n').  The returned text is given by its lines.
_get_function_body(lineno, body_ends, has_end_lineno, lines) ==
    LET start_line == lineno - 1
        end_line == IF body_ends /= <<>>
                    THEN IF has_end_lineno THEN body_ends[Len(body_ends)]
                         ELSE start_line + BodyWindow
                    ELSE start_line + 1
    IN  Slice(lines, start_line, end_line)

\* end_lineno of each statement of node.body, for a function definition
BodyEnds(src, k) ==
    IF src[k].form = InlineDefLine THEN <<k>>
    ELSE [n \in 1..Len(BlockBody(src, k)) |->
              EndLineno(src, BlockBody(src, k)[n])]

\* A CodeParser as its constructor leaves it
NewParser == [functions |-> <<>>, errors |-> <<>>, accuracy |-> 0]

\* CodeParser._get_function_info; statements have an end_lineno
_get_function_info(src, k) ==
    [name |-> "f",
     args |-> ArgsOf(<<>>),
     returns |-> _get_annotation(PyNone),
     lineno |-> k,
     existing_docstring |-> GetDocstring(src, k),
     body |-> _get_function_body(k, BodyEnds(src, k), TRUE, src)]

\* CodeParser._extract_functions: the records it appends to self.functions
_extract_functions(src) ==
    LET nodes == SelectSeq(Walk(src, <<0>>), LAMBDA k : IsFunctionDef(src, k))
    IN  [n \in 1..Len(nodes) |-> _get_function_info(src, nodes[n])]

\* parse_code that starts from what the last call left
parse_code_keeps(self, src) ==
    LET raises == AstParseRaises(src)
        failed(kind) ==
            [self |-> [functions |-> self.functions,
                       errors |-> Append(self.errors,
                                         <<kind, AstParseMessage(src)>>),
                       accuracy |-> 0],
             ret |-> <<>>,
             raised |-> FALSE]
    IN  IF raises = ""
        THEN LET fs == self.functions \o _extract_functions(src)
             IN  [self |-> [functions |-> fs,
                            errors |-> self.errors,
                            accuracy |-> IF self.errors = <<>> THEN 100
                                         ELSE 95],
                  ret |-> fs,
                  raised |-> FALSE]
        ELSE IF raises = "SyntaxError" THEN failed("Syntax Error: ")
        ELSE failed("Parse Error: ")

\* parse_code with the handler of SyntaxError only
parse_code_uncaught(self, src) ==
    LET reset == [self EXCEPT !.functions = <<>>, !.errors = <<>>]
        raises == AstParseRaises(src)
    IN  IF raises = ""
        THEN LET fs == reset.functions \o _extract_functions(src)
             IN  [self |-> [functions |-> fs,
                            errors |-> reset.errors,
                            accuracy |-> IF reset.errors = <<>> THEN 100
                                         ELSE 95],
                  ret |-> fs,
                  raised |-> FALSE]
        ELSE IF raises = "SyntaxError"
        THEN [self |-> [functions |-> reset.functions,
                        errors |-> Append(reset.errors,
                                          <<"Syntax Error: ",
                                            AstParseMessage(src)>>),
                        accuracy |-> 0],
              ret |-> <<>>,
              raised |-> FALSE]
        ELSE [self |-> reset, ret |-> <<>>, raised |-> TRUE]

\* CodeParser.parse_code on the instance self: the instance afterwards, the
\* returned list, and whether the call raised instead of returning
parse_code(self, src) ==
    LET reset == [self EXCEPT !.functions = <<>>, !.errors = <<>>]
        raises == AstParseRaises(src)
        failed(kind) ==
            [self |-> [functions |-> reset.functions,
                       errors |-> Append(reset.errors,
                                         <<kind, AstParseMessage(src)>>),
                       accuracy |-> 0],
             ret |-> <<>>,
             raised |-> FALSE]
    IN  IF raises = ""
        THEN LET fs == reset.functions \o _extract_functions(src)
             IN  [self |-> [functions |-> fs,
                            errors |-> reset.errors,
                            accuracy |-> IF reset.errors = <<>> THEN 100
                                         ELSE 95],
                  ret |-> fs,
                  raised |-> FALSE]
        ELSE IF raises = "SyntaxError" THEN failed("Syntax Error: ")
        ELSE failed("Parse Error: ")

\* get_coverage_stats that counts the units whose docstring is not None
get_coverage_stats_not_none(self) ==
    LET units == Len(self.functions)
        with_docstring ==
            Len(SelectSeq(self.functions,
                          LAMBDA f : f.existing_docstring /= PyNone))
    IN  IF units = 0
        THEN [total |-> 0, with_docstring |-> 0, without_docstring |-> 0,
              percentage |-> [num |-> 0, den |-> 1]]
        ELSE [total |-> units,
              with_docstring |-> with_docstring,
              without_docstring |-> units - with_docstring,
              percentage |-> [num |-> with_docstring * 100, den |-> units]]

\* CodeParser.get_coverage_stats; the percentage is kept as the fraction
\* with_docstring * 100 / total
get_coverage_stats(self) ==
    LET units == Len(self.functions)
        with_docstring ==
            Len(SelectSeq(self.functions,
                          LAMBDA f : Truthy(f.existing_docstring)))
    IN  IF units = 0
        THEN [total |-> 0, with_docstring |-> 0, without_docstring |-> 0,
              percentage |-> [num |-> 0, den |-> 1]]
        ELSE [total |-> units,
              with_docstring |-> with_docstring,
              without_docstring |-> units - with_docstring,
              percentage |-> [num |-> with_docstring * 100, den |-> units]]

\* No DocstringGenerator call is under way
GeneratorAllIdle == GeneratorIdle /\ ParseIdle /\ CleanIdle /\ PromptIdle

InitParser ==
    /\ GeneratorAllIdle
    /\ BodyIdle
    /\ ValidatorIdle
    /\ UiIdle
    /\ ParserIdle

\* One call parser.parse_code(src)
ParseCodeCall(src) ==
    LET out == parse_code(parser, src)
    IN  /\ parser' = out.self
        /\ source_code' = src
        /\ parse_returned' = out.ret
        /\ parser_pc' = IF out.raised THEN "raised" ELSE "returned"
        /\ earlier' = [functions |-> earlier.functions
                                        \/ parser.functions /= <<>>,
                       errors |-> earlier.errors \/ parser.errors /= <<>>]
        /\ UNCHANGED <<nonParserVars, coverage>>

\* The first call on an instance that is used for several calls: the text
\* is one line shorter than the longest
ParseCode ==
    /\ parser_pc = "new"
    /\ \E src \in SourcesUpTo(MaxLines - 1) : ParseCodeCall(src)

\* A later call on the same instance: the text is one line shorter again
ParseCodeAgain ==
    /\ parser_pc = "returned"
    /\ \E src \in SourcesUpTo(MaxLines - 2) : ParseCodeCall(src)

NextParser == ParseCode \/ ParseCodeAgain

\* One instance, any number of calls
SpecParser == InitParser /\ [][NextParser]_vars

\* The only call on a new instance, with any text
ParseCodeOnce ==
    /\ parser_pc = "new"
    /\ \E src \in SourcesUpTo(MaxLines) : ParseCodeCall(src)

\* One call parser.get_coverage_stats() after the text was parsed
GetCoverageStats ==
    /\ parser_pc = "returned"
    /\ coverage = <<>>
    /\ coverage' = <<get_coverage_stats(parser)>>
    /\ UNCHANGED <<parser, source_code, parse_returned, parser_pc, earlier>>
    /\ UNCHANGED nonParserVars

NextExtract == ParseCodeOnce \/ GetCoverageStats

\* One instance, one call
SpecExtract == InitParser /\ [][NextExtract]_vars

----------------------------------------------------------------------------
(* CodeParser._get_function_body alone, on longer texts *)

\* A text of n lines, each line its own number, and a function definition in
\* it: the line it starts on and the line its last body statement ends on
BodyInputs ==
    {[lines |-> [k \in 1..n |-> k],
      node |-> [lineno |-> a, body_ends |-> <<b>>]] :
         n \in 1..MaxBodyLines, a \in 1..MaxBodyLines, b \in 1..MaxBodyLines}

InitBody ==
    /\ GeneratorAllIdle
    /\ ParserIdle
    /\ ValidatorIdle
    /\ UiIdle
    /\ \E in \in BodyInputs :
           /\ in.node.lineno <= in.node.body_ends[1]
           /\ in.node.body_ends[1] <= Len(in.lines)
           /\ body_source = in.lines
           /\ body_node = in.node
    /\ stmt_has_end \in BOOLEAN
    /\ body_text = <<>>
    /\ bpc = "call"

GetFunctionBody ==
    /\ bpc = "call"
    /\ body_text' = _get_function_body(body_node.lineno, body_node.body_ends,
                                       stmt_has_end, body_source)
    /\ bpc' = "return"
    /\ UNCHANGED <<body_source, body_node, stmt_has_end>>
    /\ UNCHANGED <<generatorVars, parserVars, validatorVars, uiVars>>

NextBody == GetFunctionBody

SpecBody == InitBody /\ [][NextBody]_vars

----------------------------------------------------------------------------
(* DocstringValidator *)

\* The lines that _insert_docstrings adds for a docstring
LiteralLine(docstring) ==
    IF docstring = DoesNothing THEN DoesNothingBlock
    ELSE IF docstring = UseDef THEN UseDefDocLine
    ELSE ErrorDocLine

\* The string literals that span three lines of the text
Blocks == {DoesNothingBlock, UseDefDocLine, ErrorDocLine}

TextLiterals == {DocLine} \cup Blocks

\* A value of the mapping that is not a dict
NotADict == [type |-> "NoneType"]
IsDict(value) == "type" \notin DOMAIN value

\* line.strip().startswith('def ')
StartsWithDef(line) == line.form \in {DefLine, InlineDefLine}

\* line.split('def ')[1].split('(')[0].strip()
FuncName(line) == "f"

\* docstrings[func_name].get('docstring', '') raises on some line
SpliceRaises(lines, docstrings) ==
    \E k \in 1..Len(lines) :
        /\ StartsWithDef(lines[k])
        /\ FuncName(lines[k]) \in DOMAIN docstrings
        /\ ~IsDict(docstrings[FuncName(lines[k])])

\* DocstringValidator._insert_docstrings, line by line
RECURSIVE _insert_docstrings(_, _)
_insert_docstrings(lines, docstrings) ==
    IF lines = <<>> THEN <<>>
    ELSE LET line == Head(lines)
             added ==
                 IF /\ StartsWithDef(line)
                    /\ FuncName(line) \in DOMAIN docstrings
                    /\ docstrings[FuncName(line)].docstring /= <<>>
                 THEN <<[indent |-> line.indent + 1,
                         form |-> LiteralLine(
                                      docstrings[FuncName(line)].docstring)]>>
                 ELSE <<>>
         IN  <<line>> \o added \o _insert_docstrings(Tail(lines), docstrings)

\* source_code.count('def '), line by line
RECURSIVE CountDef(_)
CountDef(lines) ==
    IF lines = <<>> THEN 0
    ELSE (IF Head(lines).form \in {DefLine, AsyncDefLine, InlineDefLine,
                                   UseDefDocLine}
          THEN 1 ELSE 0) + CountDef(Tail(lines))

\* max(0, a - b) on naturals
MaxZeroDiff(a, b) == IF a > b THEN a - b ELSE 0

\* The rule engine (pydocstyle).  The definition a line belongs to: the
\* nearest line above it that is one indentation step out, 0 for the module
ParentOf(src, k) ==
    IF src[k].indent = 0 THEN 0
    ELSE CHOOSE j \in 1..(k - 1) :
             /\ src[j].indent + 1 = src[k].indent
             /\ \A m \in (j + 1)..(k - 1) : src[m].indent >= src[k].indent

\* The lines on which a definition of a function or of a class starts
DefinitionLines(src) ==
    {k \in 1..Len(src) :
         src[k].form \in {DefLine, AsyncDefLine, InlineDefLine, ClassLine}}

KindOf(src, k) ==
    LET parent == ParentOf(src, k)
    IN  IF src[k].form = ClassLine
        THEN IF parent = 0 THEN "class" ELSE "nested class"
        ELSE IF parent = 0 THEN "function"
        ELSE IF src[parent].form = ClassLine THEN "method"
        ELSE "nested function"

RECURSIVE IsPublic(_, _)
IsPublic(src, k) ==
    LET parent == ParentOf(src, k)
    IN  IF parent = 0 THEN TRUE
        ELSE /\ src[parent].form = ClassLine
             /\ IsPublic(src, parent)

\* The code for a public definition without a docstring
MissingCode(kind) ==
    IF kind = "module" THEN "D100"
    ELSE IF kind = "class" THEN "D101"
    ELSE IF kind = "method" THEN "D102"
    ELSE IF kind = "function" THEN "D103"
    ELSE "D106"

\* The docstring of the module (k = 0) or of the definition on line k
DocStatus(src, k) ==
    IF k = Len(src) \/ (k /= 0 /\ src[k].form \notin Headers) THEN "none"
    ELSE IF src[k + 1].form \in Blocks THEN "block"
    ELSE IF src[k + 1].form \in TextLiterals THEN "text"
    ELSE IF src[k + 1].form = BlankDocLine THEN "blank"
    ELSE "none"

Finding(code, src, k) ==
    [code |-> code,
     message |-> <<code, " reported by the rule engine">>,
     line |-> IF k = 0 THEN 1 ELSE k,
     definition |-> IF k = 0 THEN "module" ELSE KindOf(src, k)]

\* What the engine can report for one definition: the missing-docstring
\* code when it is public and has no docstring, that code or the
\* empty-docstring code when its docstring is blank, possibly a style code
\* when it has a docstring, which for a text of one line between quotes on
\* lines of their own can be the one-line code
FindingsFor(src, k) ==
    LET kind == IF k = 0 THEN "module" ELSE KindOf(src, k)
        public == k = 0 \/ IsPublic(src, k)
        missing == <<Finding(MissingCode(kind), src, k)>>
        status == DocStatus(src, k)
    IN  IF status = "none" THEN IF public THEN {missing} ELSE {<<>>}
        ELSE IF status = "blank"
        THEN {<<Finding("D419", src, k)>>}
                 \cup (IF public THEN {missing} ELSE {})
        ELSE {<<>>, <<Finding("D400", src, k)>>}
                 \cup (IF status = "block"
                       THEN {<<Finding("D200", src, k)>>} ELSE {})

\* list(check([temp_path])) for a text the engine can parse: the findings of
\* the module, then those of the definitions from line k on
RECURSIVE Check(_, _)
Check(src, k) ==
    IF k > Len(src) THEN {<<>>}
    ELSE IF k /= 0 /\ k \notin DefinitionLines(src) THEN Check(src, k + 1)
    ELSE {a \o b : a \in FindingsFor(src, k), b \in Check(src, k + 1)}

\* issue.code in ['D100', 'D101', 'D102', 'D103']
IsErrorCode(code) == code \in {"D100", "D101", "D102", "D103"}

\* _format_results whose total counts the errors only
_format_results_errors_only(self) ==
    [errors |-> self.errors,
     warnings |-> self.warnings,
     compliant |-> self.compliant_count,
     total_issues |-> Len(self.errors),
     summary |-> [compliant |-> self.compliant_count,
                  warnings |-> Len(self.warnings),
                  errors |-> Len(self.errors)]]

\* DocstringValidator._format_results
_format_results(self) ==
    [errors |-> self.errors,
     warnings |-> self.warnings,
     compliant |-> self.compliant_count,
     total_issues |-> Len(self.errors) + Len(self.warnings),
     summary |-> [compliant |-> self.compliant_count,
                  warnings |-> Len(self.warnings),
                  errors |-> Len(self.errors)]]

\* The dict validate_code returns from `except Exception as e`
FailureResult(e) ==
    [errors |-> <<[code |-> "ERROR",
                   message |-> <<"Validation error: ", e>>,
                   line |-> 0,
                   definition |-> ""]>>,
     warnings |-> <<>>,
     compliant |-> 0,
     total_issues |-> 1,
     summary |-> [compliant |-> 0, warnings |-> 0, errors |-> 1]]

\* DocstringValidator._get_issue_message: the table, and its default
_get_issue_message(code) ==
    IF code = "D100" THEN <<"Missing docstring in public module">>
    ELSE IF code = "D101" THEN <<"Missing docstring in public class">>
    ELSE IF code = "D102" THEN <<"Missing docstring in public method">>
    ELSE IF code = "D103" THEN <<"Missing docstring in public function">>
    ELSE IF code = "D200"
    THEN <<"One-line docstring should fit on one line">>
    ELSE IF code = "D400" THEN <<"First line should end with a period">>
    ELSE <<"PEP 257 violation: ", code>>

\* The codes of a list of findings, each once, in the order of their first
\* occurrence: the keys of the dict issue_types
RECURSIVE IssueTypes(_)
IssueTypes(findings) ==
    IF findings = <<>> THEN <<>>
    ELSE LET before == IssueTypes(DropLast(findings))
             code == findings[Len(findings)].code
         IN  IF \E k \in 1..Len(before) : before[k] = code THEN before
             ELSE Append(before, code)

\* "error" if code in ['D100', 'D101', 'D102', 'D103'] else "warning"
StatusSeverity(code) ==
    IF code \in {"D100", "D101", "D102", "D103"} THEN "error" ELSE "warning"

\* DocstringValidator.get_file_status
get_file_status(file_results) ==
    LET all == file_results.errors \o file_results.warnings
        codes == IssueTypes(all)
    IN  [k \in 1..Len(codes) |->
             [code |-> codes[k],
              message |-> _get_issue_message(codes[k]),
              count |-> Len(SelectSeq(all, LAMBDA f : f.code = codes[k])),
              severity |-> StatusSeverity(codes[k])]]

\* code.startswith(prefix), for the codes of the engine and the code ERROR
CodeStartsWith(code, prefix) ==
    \/ prefix = "D1" /\ code \in {"D100", "D101", "D102", "D103", "D106"}
    \/ prefix = "D2" /\ code = "D200"
    \/ prefix = "D3" /\ code = "D300"
    \/ prefix = "D4" /\ code \in {"D400", "D419"}

\* helpers.get_severity_color
get_severity_color(code) ==
    IF CodeStartsWith(code, "D1") THEN "error"
    ELSE IF CodeStartsWith(code, "D2") THEN "warning"
    ELSE IF CodeStartsWith(code, "D3") THEN "warning"
    ELSE IF CodeStartsWith(code, "D4") THEN "error"
    ELSE "error"

\* The text validate_code hands to the engine
Merged(src, generated) ==
    IF ~generated.is_none /\ DOMAIN generated.items /= {}
    THEN _insert_docstrings(src, generated.items)
    ELSE src

\* The generated_docstrings arguments: None, an empty dict, or a mapping
\* with a value for the name f
GeneratedArguments ==
    {[is_none |-> TRUE, items |-> EmptyDict],
     [is_none |-> FALSE, items |-> EmptyDict]}
        \cup {[is_none |-> FALSE, items |-> DictSet(EmptyDict, "f", r)] :
                  r \in {GeneratedResult(DoesNothing), GeneratedResult(UseDef),
                         ErrorResult("timeout"),
                         ExistingResult([name |-> "f",
                                         existing_docstring |-> DoesNothing]),
                         NotADict}}

\* The arguments of the calls: any mapping with a text of fewer than MaxLines
\* lines, no mapping with a text of MaxLines lines
ValidateArguments ==
    (SourcesUpTo(MaxLines - 1) \X GeneratedArguments)
        \cup (SourcesOfLen(MaxLines)
                  \X {[is_none |-> TRUE, items |-> EmptyDict]})

InitValidator ==
    /\ GeneratorAllIdle
    /\ ParserIdle
    /\ BodyIdle
    /\ UiIdle
    /\ validator = [errors |-> <<>>, warnings |-> <<>>, compliant_count |-> 0]
    /\ \E arguments \in ValidateArguments :
           /\ v_source = arguments[1]
           /\ v_generated = arguments[2]
    /\ v_merged = <<>>
    /\ v_result = [errors |-> <<>>, warnings |-> <<>>, compliant |-> 0,
                   total_issues |-> 0,
                   summary |-> [compliant |-> 0, warnings |-> 0, errors |-> 0]]
    /\ vpc = "call"
    /\ v_issues = <<>>
    /\ temp_file = "none"
    /\ v_status = <<>>
    /\ v_colors = EmptyDict
    /\ spc = "call"

\* The splice is attempted and does not raise
SpliceReturns ==
    \/ v_generated.is_none
    \/ DOMAIN v_generated.items = {}
    \/ ~SpliceRaises(v_source, v_generated.items)

\* validate_code on the normal path: the file is written, the engine parses
\* the merged text and reports the findings issues, and the `finally` block
\* removes the file unless os.remove fails, which `except: pass` hides
ValidateOk ==
    /\ vpc = "call"
    /\ SpliceReturns
    /\ Parseable(Merged(v_source, v_generated))
    /\ \E issues \in Check(Merged(v_source, v_generated), 0) :
           LET errors == SelectSeq(issues, LAMBDA f : IsErrorCode(f.code))
               warnings == SelectSeq(issues, LAMBDA f : ~IsErrorCode(f.code))
               total_functions == CountDef(Merged(v_source, v_generated))
               self == [errors |-> errors,
                        warnings |-> warnings,
                        compliant_count |->
                            MaxZeroDiff(total_functions, Len(errors))]
           IN  /\ validator' = self
               /\ v_result' = _format_results(self)
               /\ v_issues' = issues
    /\ v_merged' = Merged(v_source, v_generated)
    /\ \E removed \in BOOLEAN :
           temp_file' = IF removed THEN "removed" ELSE "exists"
    /\ vpc' = "normal"
    /\ UNCHANGED <<v_source, v_generated, v_status, v_colors, spc>>
    /\ UNCHANGED <<generatorVars, parserVars, bodyVars, uiVars>>

\* validate_code when _insert_docstrings raises: no file is created
ValidateSpliceFail ==
    /\ vpc = "call"
    /\ ~SpliceReturns
    /\ v_result' = FailureResult("'NoneType' object has no attribute 'get'")
    /\ vpc' = "failed"
    /\ UNCHANGED <<validator, v_source, v_generated, v_merged, v_issues,
                   temp_file, v_status, v_colors, spc>>
    /\ UNCHANGED <<generatorVars, parserVars, bodyVars, uiVars>>

\* What can fail in the `with` block: creating the file, and writing to it
CreateFailures == {"Too many open files"}
WriteFailures == {"No space left on device"}

\* validate_code when the `with` block raises, with the block outside the
\* outer try
ValidateWriteFailRaises ==
    /\ vpc = "call"
    /\ SpliceReturns
    /\ \E e \in CreateFailures \cup WriteFailures :
           temp_file' = IF e \in CreateFailures THEN "none" ELSE "exists"
    /\ vpc' = "raised"
    /\ UNCHANGED <<validator, v_source, v_generated, v_merged, v_result,
                   v_issues, v_status, v_colors, spc>>
    /\ UNCHANGED <<generatorVars, parserVars, bodyVars, uiVars>>

\* validate_code when the `with` block raises: temp_path is not assigned and
\* the inner try is not entered, so a file that was created stays
ValidateWriteFail ==
    /\ vpc = "call"
    /\ SpliceReturns
    /\ \E e \in CreateFailures \cup WriteFailures :
           /\ v_result' = FailureResult(e)
           /\ temp_file' = IF e \in CreateFailures THEN "none" ELSE "exists"
    /\ vpc' = "failed"
    /\ UNCHANGED <<validator, v_source, v_generated, v_merged, v_issues,
                   v_status, v_colors, spc>>
    /\ UNCHANGED <<generatorVars, parserVars, bodyVars, uiVars>>

\* What the loop over the findings raises when the engine could not parse
\* the text: the engine yields the exception, which has no code
ValidationFailures(src) ==
    IF Parseable(src) THEN {}
    ELSE {"'ParseError' object has no attribute 'code'"}

\* validate_code when the inner try raises: the `finally` block runs first
ValidateEngineFail ==
    /\ vpc = "call"
    /\ SpliceReturns
    /\ \E e \in ValidationFailures(Merged(v_source, v_generated)) :
           v_result' = FailureResult(e)
    /\ v_merged' = Merged(v_source, v_generated)
    /\ \E removed \in BOOLEAN :
           temp_file' = IF removed THEN "removed" ELSE "exists"
    /\ vpc' = "failed"
    /\ UNCHANGED <<validator, v_source, v_generated, v_issues, v_status,
                   v_colors, spc>>
    /\ UNCHANGED <<generatorVars, parserVars, bodyVars, uiVars>>

\* validate_code when an exception reaches `except Exception`
ValidateFail == ValidateSpliceFail \/ ValidateWriteFail \/ ValidateEngineFail

\* validator.get_file_status(validation_results), after validate_code
GetFileStatus ==
    /\ vpc \in {"normal", "failed"}
    /\ spc = "call"
    /\ v_status' = get_file_status(v_result)
    /\ spc' = "status"
    /\ UNCHANGED <<validator, v_source, v_generated, v_merged, v_result, vpc,
                   v_issues, temp_file, v_colors>>
    /\ UNCHANGED <<generatorVars, parserVars, bodyVars, uiVars>>

\* get_severity_color(item['code']) for the items of the status list
GetSeverityColor ==
    /\ spc = "status"
    /\ v_colors' = [code \in {v_status[k].code : k \in 1..Len(v_status)} |->
                        get_severity_color(code)]
    /\ spc' = "colors"
    /\ UNCHANGED <<validator, v_source, v_generated, v_merged, v_result, vpc,
                   v_issues, temp_file, v_status>>
    /\ UNCHANGED <<generatorVars, parserVars, bodyVars, uiVars>>

NextValidator ==
    ValidateOk \/ ValidateFail \/ GetFileStatus \/ GetSeverityColor

SpecValidator == InitValidator /\ [][NextValidator]_vars

----------------------------------------------------------------------------
(* The insertion routines: DocstringValidator._insert_docstrings,
   MainWindow._insert_docstrings_into_code and format_code_with_docstring *)

\* lines[j].strip().startswith('"""'): the forms that begin with three quotes
StartsWithQuotes(line) == line.form \in {QuoteLine, DocLine, BlankDocLine}

\* '"""' in lines[j]: no form has quotes after other text
ContainsQuotes(line) == line.form \in {QuoteLine, DocLine, BlankDocLine}

\* line.count('"""') == 2: a literal that opens and closes on the line
HasTwoQuotes(line) == line.form \in {DocLine, BlankDocLine}

\* not lines[j].strip(): no form is a blank line
IsBlankLine(line) == line.form = ""

\* The line of text of a docstring
TextLine(docstring) ==
    IF docstring = DoesNothing THEN DoesNothingText
    ELSE IF docstring = UseDef THEN UseDefText
    ELSE ErrorText

\* The three lines the routines append: quotes, the text, quotes
BlockLines(indent, docstring) ==
    <<[indent |-> indent, form |-> QuoteLine],
      [indent |-> indent, form |-> TextLine(docstring)],
      [indent |-> indent, form |-> QuoteLine]>>

\* MainWindow._insert_docstrings_into_code from line i on: the line, the
\* three lines of the docstring when the result for its name has the status
\* generated, and the lines after the ones that are skipped.  Lines are
\* skipped when the first line after line i that is not blank begins with
\* quotes and a line with quotes follows line i + 1: through that line
RECURSIVE _insert_docstrings_into_code_from(_, _, _)
_insert_docstrings_into_code_from(lines, generated_docstrings, at) ==
    IF at > Len(lines) THEN <<>>
    ELSE LET line == lines[at]
             func_name == FuncName(line)
             inserts ==
                 /\ StartsWithDef(line)
                 /\ func_name \in DOMAIN generated_docstrings
                 /\ Truthy(generated_docstrings[func_name].docstring)
                 /\ "status" \in DOMAIN generated_docstrings[func_name]
                 /\ generated_docstrings[func_name].status = "generated"
             first ==
                 CHOOSE j \in (at + 1)..(Len(lines) + 1) :
                     /\ j = Len(lines) + 1 \/ ~IsBlankLine(lines[j])
                     /\ \A m \in (at + 1)..(j - 1) : IsBlankLine(lines[m])
             closing ==
                 {j \in first..Len(lines) :
                      ContainsQuotes(lines[j]) /\ j > at + 1}
             last ==
                 IF /\ inserts
                    /\ first <= Len(lines)
                    /\ StartsWithQuotes(lines[first])
                    /\ closing /= {}
                 THEN CHOOSE j \in closing : \A m \in closing : j <= m
                 ELSE at
         IN  <<line>>
                 \o (IF inserts
                     THEN BlockLines(line.indent + 1,
                                     generated_docstrings[func_name].docstring)
                     ELSE <<>>)
                 \o _insert_docstrings_into_code_from(
                        lines, generated_docstrings, last + 1)

\* MainWindow._insert_docstrings_into_code on self.source_code and
\* self.generated_docstrings
_insert_docstrings_into_code(lines, generated_docstrings) ==
    _insert_docstrings_into_code_from(lines, generated_docstrings, 1)

\* format_code_with_docstring: the loop over the lines after the definition
\* line, from line `at` on
RECURSIVE RemainingLines(_, _, _)
RemainingLines(lines, at, skip_next) ==
    IF at > Len(lines) THEN <<>>
    ELSE IF StartsWithQuotes(lines[at])
    THEN IF HasTwoQuotes(lines[at])
         THEN RemainingLines(lines, at + 1, skip_next)
         ELSE RemainingLines(lines, at + 1, TRUE)
    ELSE IF skip_next
    THEN RemainingLines(lines, at + 1, ~ContainsQuotes(lines[at]))
    ELSE <<lines[at]>> \o RemainingLines(lines, at + 1, FALSE)

\* The default of the parameter indent_level
IndentLevel == 1

\* format_code_with_docstring(original_code, docstring)
format_code_with_docstring(lines, docstring) ==
    LET definitions ==
            {k \in 1..Len(lines) :
                 lines[k].form \in {DefLine, InlineDefLine, ClassLine}}
        def_line_idx ==
            IF definitions = {} THEN 1
            ELSE CHOOSE k \in definitions : \A m \in definitions : k <= m
    IN  SubSeq(lines, 1, IF def_line_idx <= Len(lines) THEN def_line_idx
                         ELSE Len(lines))
            \o BlockLines(IndentLevel, docstring)
            \o RemainingLines(lines, def_line_idx + 1, FALSE)

\* The texts that parse_code accepts, of at most n lines
ParseableSources(n) == {src \in SourcesUpTo(n) : Parseable(src)}

\* The generation results for the name f that carry a docstring
SpliceResults ==
    {GeneratedResult(DoesNothing), GeneratedResult(UseDef),
     ErrorResult("timeout"),
     ExistingResult([name |-> "f", existing_docstring |-> DoesNothing])}

Routines == {"_insert_docstrings", "_insert_docstrings_into_code",
             "format_code_with_docstring"}

\* How often a routine is applied to what it returned
MaxApplications == 2

InitSplice ==
    /\ GeneratorAllIdle
    /\ ParserIdle
    /\ BodyIdle
    /\ ValidatorIdle
    /\ WindowIdle
    /\ splice_routine \in Routines
    /\ splice_source \in ParseableSources(MaxLines)
    /\ splice_result \in SpliceResults
    /\ splice_outputs = <<>>
    /\ splice_units = <<>>

\* The text the next application works on
SpliceInput ==
    IF splice_outputs = <<>> THEN splice_source
    ELSE splice_outputs[Len(splice_outputs)]

\* The mapping with the result for the name f
SpliceMapping == DictSet(EmptyDict, "f", splice_result)

\* validator._insert_docstrings(text, mapping)
InsertDocstrings ==
    /\ splice_routine = "_insert_docstrings"
    /\ Len(splice_outputs) < MaxApplications
    /\ splice_outputs'
           = Append(splice_outputs,
                    _insert_docstrings(SpliceInput, SpliceMapping))
    /\ UNCHANGED <<splice_routine, splice_source, splice_result, splice_units>>
    /\ UNCHANGED <<generatorVars, parserVars, bodyVars, validatorVars,
                   windowVars>>

\* MainWindow._insert_docstrings_into_code with the text and the mapping
InsertDocstringsIntoCode ==
    /\ splice_routine = "_insert_docstrings_into_code"
    /\ Len(splice_outputs) < MaxApplications
    /\ splice_outputs'
           = Append(splice_outputs,
                    _insert_docstrings_into_code(SpliceInput, SpliceMapping))
    /\ UNCHANGED <<splice_routine, splice_source, splice_result, splice_units>>
    /\ UNCHANGED <<generatorVars, parserVars, bodyVars, validatorVars,
                   windowVars>>

\* format_code_with_docstring(text, docstring)
FormatCodeWithDocstring ==
    /\ splice_routine = "format_code_with_docstring"
    /\ Len(splice_outputs) < MaxApplications
    /\ splice_outputs'
           = Append(splice_outputs,
                    format_code_with_docstring(SpliceInput,
                                               splice_result.docstring))
    /\ UNCHANGED <<splice_routine, splice_source, splice_result, splice_units>>
    /\ UNCHANGED <<generatorVars, parserVars, bodyVars, validatorVars,
                   windowVars>>

\* CodeParser().parse_code on the text of the first application
ParseInserted ==
    /\ splice_outputs /= <<>>
    /\ splice_units = <<>>
    /\ splice_units' = <<parse_code(NewParser, Fold(splice_outputs[1]))>>
    /\ UNCHANGED <<splice_routine, splice_source, splice_result,
                   splice_outputs>>
    /\ UNCHANGED <<generatorVars, parserVars, bodyVars, validatorVars,
                   windowVars>>

NextSplice ==
    \/ InsertDocstrings
    \/ InsertDocstringsIntoCode
    \/ FormatCodeWithDocstring
    \/ ParseInserted

SpecSplice == InitSplice /\ [][NextSplice]_vars

----------------------------------------------------------------------------
(* MainWindow and GeneratorThread *)

\* How many texts are loaded and generation passes are requested, together
MaxEvents == 3

\* generator.generate_batch(functions, style, callback) as the mapping it
\* returns: the result of each unit under its name, later units replacing
\* earlier ones; the service answers every call of the pass, or fails them
RECURSIVE generate_batch(_, _)
generate_batch(units, answered) ==
    IF units = <<>> THEN EmptyDict
    ELSE LET function_info == units[Len(units)]
             r == IF Truthy(function_info.existing_docstring)
                  THEN ExistingResult(function_info)
                  ELSE IF answered THEN GeneratedResult(DoesNothing)
                  ELSE ErrorResult("timeout")
         IN  DictSet(generate_batch(DropLast(units), answered),
                     function_info.name, r)

\* validator.validate_code(source_code, docstrings_dict) for a mapping that
\* is not empty and holds dicts: the fields it leaves, the dict it returns
\* and the merged text it built, for every list of findings the engine can
\* report and every failure
validate_code(self, src, generated) ==
    LET merged == Merged(src, [is_none |-> FALSE, items |-> generated])
        left(issues) ==
            LET errors == SelectSeq(issues, LAMBDA f : IsErrorCode(f.code))
            IN  [errors |-> errors,
                 warnings |-> SelectSeq(issues,
                                        LAMBDA f : ~IsErrorCode(f.code)),
                 compliant_count |-> MaxZeroDiff(CountDef(merged),
                                                 Len(errors))]
    IN  (IF Parseable(merged)
         THEN {[self |-> left(issues),
                ret |-> _format_results(left(issues)),
                merged |-> merged] : issues \in Check(merged, 0)}
         ELSE {})
            \cup {[self |-> self, ret |-> FailureResult(e), merged |-> merged] :
                      e \in WriteFailures \cup ValidationFailures(merged)}

\* No pass was requested, nothing was validated or saved
NoPass == [load |-> 0, request |-> 0]
NothingValidated == [load |-> 0, from |-> NoPass, merged |-> <<>>]
NothingSaved == [load |-> 0, from |-> NoPass, output |-> <<>>]

\* MainWindow.__init__
InitWindow ==
    /\ GeneratorAllIdle
    /\ ParserIdle
    /\ BodyIdle
    /\ ValidatorIdle
    /\ SpliceIdle
    /\ w_generator = FALSE
    /\ w_parser = NewParser
    /\ w_validator = [errors |-> <<>>, warnings |-> <<>>, compliant_count |-> 0]
    /\ w_source_code = <<>>
    /\ w_parsed_functions = <<>>
    /\ w_generated_docstrings = EmptyDict
    /\ w_validation_results = EmptyDict
    /\ w_threads = {}
    /\ w_progress = 0
    /\ w_loads = 0
    /\ w_requests = 0
    /\ w_parsed_load = 0
    /\ w_generated_from = NoPass
    /\ w_validated = NothingValidated
    /\ w_saved = NothingSaved
    /\ w_pc = "running"

\* MainWindow.set_api_key with the text of the input field
SetApiKey ==
    /\ w_pc = "running"
    /\ \E api_key \in {"", "key"} :
           w_generator' = IF api_key /= "" THEN TRUE ELSE w_generator
    /\ UNCHANGED <<w_parser, w_validator, w_source_code, w_parsed_functions,
                   w_generated_docstrings, w_validation_results, w_threads,
                   w_progress, w_loads, w_requests, w_parsed_load,
                   w_generated_from, w_validated, w_saved, w_pc>>
    /\ UNCHANGED <<generatorVars, parserVars, bodyVars, validatorVars,
                   spliceVars>>

\* The texts a user loads: first one of at most MaxLines lines that
\* parse_code accepts and finds a unit in, then any text of one line
LoadedSources ==
    IF w_loads = 0
    THEN {src \in ParseableSources(MaxLines) : _extract_functions(src) /= <<>>}
    ELSE SourcesOfLen(1)

\* self.source_code = text: all that upload_file and paste_code assign
LoadSource(text) ==
    /\ w_pc = "running"
    /\ w_loads + w_requests < MaxEvents
    /\ w_source_code' = text
    /\ w_loads' = w_loads + 1
    /\ UNCHANGED <<w_generator, w_parser, w_validator, w_parsed_functions,
                   w_generated_docstrings, w_validation_results, w_threads,
                   w_progress, w_requests, w_parsed_load, w_generated_from,
                   w_validated, w_saved, w_pc>>
    /\ UNCHANGED <<generatorVars, parserVars, bodyVars, validatorVars,
                   spliceVars>>

\* MainWindow.upload_file when a file was chosen and could be read
UploadFile == \E text \in LoadedSources : LoadSource(text)

\* MainWindow.paste_code when the dialog was accepted
PasteCode == \E text \in LoadedSources : LoadSource(text)

\* MainWindow.parse_code
WindowParseCode ==
    /\ w_pc = "running"
    /\ w_source_code /= <<>>
    /\ LET out == parse_code(w_parser, w_source_code)
       IN  /\ w_parser' = out.self
           /\ w_parsed_functions' = out.ret
    /\ w_parsed_load' = w_loads
    /\ UNCHANGED <<w_generator, w_validator, w_source_code,
                   w_generated_docstrings, w_validation_results, w_threads,
                   w_progress, w_loads, w_requests, w_generated_from,
                   w_validated, w_saved, w_pc>>
    /\ UNCHANGED <<generatorVars, parserVars, bodyVars, validatorVars,
                   spliceVars>>

\* MainWindow.generate_docstrings: a GeneratorThread is created, stored in
\* self.thread and started, whether or not the one stored before it is
\* still running.  The QThread that self.thread no longer refers to can be
\* destroyed while it runs, which ends the process
GenerateDocstrings ==
    /\ w_pc = "running"
    /\ w_generator
    /\ w_parsed_functions /= <<>>
    /\ w_loads + w_requests < MaxEvents
    /\ \E st \in Styles :
           w_threads' = w_threads \cup {[request |-> w_requests + 1,
                                         load |-> w_parsed_load,
                                         source_load |-> w_loads,
                                         functions |-> w_parsed_functions,
                                         style |-> st,
                                         emitted |-> 0]}
    /\ \E survives \in BOOLEAN :
           w_pc' = IF w_threads /= {} /\ ~survives THEN "aborted"
                   ELSE "running"
    /\ w_progress' = 0
    /\ w_requests' = w_requests + 1
    /\ UNCHANGED <<w_generator, w_parser, w_validator, w_source_code,
                   w_parsed_functions, w_generated_docstrings,
                   w_validation_results, w_loads, w_parsed_load,
                   w_generated_from, w_validated, w_saved>>
    /\ UNCHANGED <<generatorVars, parserVars, bodyVars, validatorVars,
                   spliceVars>>

\* MainWindow.update_progress for the progress signal of a running thread
UpdateProgress ==
    /\ w_pc = "running"
    /\ \E t \in w_threads :
           /\ t.emitted < Len(t.functions)
           /\ w_threads' = (w_threads \ {t})
                               \cup {[t EXCEPT !.emitted = t.emitted + 1]}
           /\ w_progress' = ((t.emitted + 1) * 100) \div Len(t.functions)
    /\ UNCHANGED <<w_generator, w_parser, w_validator, w_source_code,
                   w_parsed_functions, w_generated_docstrings,
                   w_validation_results, w_loads, w_requests, w_parsed_load,
                   w_generated_from, w_validated, w_saved, w_pc>>
    /\ UNCHANGED <<generatorVars, parserVars, bodyVars, validatorVars,
                   spliceVars>>

\* MainWindow.generation_finished for the finished signal of a thread whose
\* generate_batch call has returned
GenerationFinished ==
    /\ w_pc = "running"
    /\ \E t \in w_threads :
           /\ t.emitted = Len(t.functions)
           /\ w_threads' = w_threads \ {t}
           /\ \E answered \in BOOLEAN :
                  w_generated_docstrings'
                      = generate_batch(t.functions, answered)
           /\ w_generated_from' = [load |-> t.load, request |-> t.request]
    /\ UNCHANGED <<w_generator, w_parser, w_validator, w_source_code,
                   w_parsed_functions, w_validation_results, w_progress,
                   w_loads, w_requests, w_parsed_load,
                   w_validated, w_saved, w_pc>>
    /\ UNCHANGED <<generatorVars, parserVars, bodyVars, validatorVars,
                   spliceVars>>

\* MainWindow.validate_docstrings
ValidateDocstrings ==
    /\ w_pc = "running"
    /\ w_generated_docstrings /= EmptyDict
    /\ \E out \in validate_code(w_validator, w_source_code,
                                w_generated_docstrings) :
           /\ w_validator' = out.self
           /\ w_validation_results' = out.ret
           /\ w_validated' = [load |-> w_loads,
                              from |-> w_generated_from,
                              merged |-> out.merged]
    /\ UNCHANGED <<w_generator, w_parser, w_source_code, w_parsed_functions,
                   w_generated_docstrings, w_threads, w_progress, w_loads,
                   w_requests, w_parsed_load, w_generated_from, w_saved,
                   w_pc>>
    /\ UNCHANGED <<generatorVars, parserVars, bodyVars, validatorVars,
                   spliceVars>>

\* MainWindow.download_output when a file was chosen and could be written
DownloadOutput ==
    /\ w_pc = "running"
    /\ w_generated_docstrings /= EmptyDict
    /\ w_saved' = [load |-> w_loads,
                   from |-> w_generated_from,
                   output |-> _insert_docstrings_into_code(
                                  w_source_code, w_generated_docstrings)]
    /\ UNCHANGED <<w_generator, w_parser, w_validator, w_source_code,
                   w_parsed_functions, w_generated_docstrings,
                   w_validation_results, w_threads, w_progress, w_loads,
                   w_requests, w_parsed_load, w_generated_from, w_validated,
                   w_pc>>
    /\ UNCHANGED <<generatorVars, parserVars, bodyVars, validatorVars,
                   spliceVars>>

NextWindow ==
    \/ SetApiKey
    \/ UploadFile
    \/ PasteCode
    \/ WindowParseCode
    \/ GenerateDocstrings
    \/ UpdateProgress
    \/ GenerationFinished
    \/ ValidateDocstrings
    \/ DownloadOutput

SpecWindow == InitWindow /\ [][NextWindow]_vars

----------------------------------------------------------------------------
(* Properties of generate_docstring and generate_batch, under Spec *)

\* result.get("status") == st
HasStatus(r, st) == "status" \in DOMAIN r /\ r.status = st

\* The remote calls made for the k-th unit of the input
CallsFor(k) == {c \in 1..Len(calls) : calls[c].unit = k}

\* The k-th unit passed through generate_docstring
Generated(k) == k <= i \/ (k = i + 1 /\ pc \in {"store", "progress"})

\* A step of generate_batch in which the remote call, if one is made, fails
StepWithFailure ==
    \/ GenerateNoModel
    \/ GenerateExisting
    \/ GenerateFail
    \/ Store
    \/ Progress
    \/ NoProgress
    \/ BatchReturn

\* C1: generate_batch never stops before its return, whatever calls fail; a
\* unit whose remote call failed is returned a result with status 'error'
\* whose errors list is the failure message; and at the return every unit of
\* the input, also those after a failed one, was processed and has a result.
C1_FailureDoesNotAbortBatch ==
    /\ pc \in {"generate", "store", "progress"} => ENABLED StepWithFailure
    /\ \A c \in 1..Len(calls) :
           (~calls[c].ok /\ calls[c].unit <= Len(returned))
               => /\ HasStatus(returned[calls[c].unit], "error")
                  /\ returned[calls[c].unit].errors = <<<<calls[c].text>>>>
    /\ pc = "done"
           => /\ Len(returned) = Len(functions)
              /\ \A k \in 1..Len(functions) : functions[k].name \in DOMAIN results

\* A batch returned in which a remote call failed for a unit that is not the last
C1_Witness ==
    /\ pc = "done"
    /\ \E c \in 1..Len(calls) : ~calls[c].ok /\ calls[c].unit < Len(functions)

\* C2: with no credential every result of generate_docstring and every entry
\* of the mapping of generate_batch has status 'error', and the remote
\* service is never called.
C2_NoCredentialAllError ==
    ~model
        => /\ \A k \in 1..Len(returned) : HasStatus(returned[k], "error")
           /\ \A n \in DOMAIN results : HasStatus(results[n], "error")
           /\ calls = <<>>

\* C3: every result of generate_docstring has a status among existing,
\* generated and error: existing iff the unit had documentation and generation
\* was skipped, error iff the remote call failed or no credential was
\* configured, generated in every other case.
C3_StatusTrichotomy ==
    \A k \in 1..Len(returned) :
        LET r == returned[k]
            isExisting == /\ model
                          /\ Truthy(functions[k].existing_docstring)
                          /\ CallsFor(k) = {}
            isError == ~model \/ \E c \in CallsFor(k) : ~calls[c].ok
        IN  /\ "status" \in DOMAIN r
            /\ HasStatus(r, "error") <=> isError
            /\ HasStatus(r, "existing") <=> (isExisting /\ ~isError)
            /\ HasStatus(r, "generated") <=> (~isExisting /\ ~isError)

C6_SequentialProgress ==
    LET n == Len(functions)
        perUnit == IF callback THEN 3 ELSE 2
        started == IF pc \in {"store", "progress"} THEN i + 1 ELSE i
        stored == IF pc = "progress" THEN i + 1 ELSE i
        fired == IF callback THEN i ELSE 0
    IN  /\ Len(log) = started + stored + fired
        /\ \A k \in 1..started : log[perUnit * (k - 1) + 1] = <<"generate", k>>
        /\ \A k \in 1..stored :
               /\ log[perUnit * (k - 1) + 2] = <<"store", k>>
               /\ k <= Len(returned)
        /\ \A k \in 1..fired : log[perUnit * k] = <<"progress", k>>
        /\ Len(progress) = fired
        /\ \A k \in 1..fired : progress[k] = <<k, n>>
        /\ pc = "done" => i = n
        /\ n = 0 => progress = <<>>

\* A batch of at least two units returned with a callback supplied
C6_Witness ==
    /\ pc = "done" /\ callback
    /\ Len(functions) >= 2
    /\ Len(progress) = Len(functions)

\* The last unit of the input carrying the name nm
LastNamed(nm) ==
    CHOOSE k \in 1..Len(functions) :
        /\ functions[k].name = nm
        /\ \A j \in (k + 1)..Len(functions) : functions[j].name /= nm

\* C7: the returned mapping has at most len(functions) entries, exactly that
\* many when the unit names are distinct, and the entry of a name holds the
\* result of the last unit of the input with that name.
C7_MappingKeyedByName ==
    pc = "done"
        => /\ Cardinality(DOMAIN results) <= Len(functions)
           /\ (\A j, k \in 1..Len(functions) :
                   j /= k => functions[j].name /= functions[k].name)
                  => Cardinality(DOMAIN results) = Len(functions)
           /\ DOMAIN results = {functions[k].name : k \in 1..Len(functions)}
           /\ \A nm \in DOMAIN results : results[nm] = returned[LastNamed(nm)]

\* A batch returned in which two units share a name and got different results
C7_Witness ==
    /\ pc = "done"
    /\ \E j, k \in 1..Len(functions) :
           /\ j < k
           /\ functions[j].name = functions[k].name
           /\ returned[j] /= returned[k]
           /\ results[functions[k].name] = returned[k]

----------------------------------------------------------------------------
(* Properties of _parse_response, under SpecParse *)

IsString(x) == x \in Seq(Tokens)

\* C8: for every response text, also the empty one and one with no marker,
\* _parse_response returns a dict whose docstring is a string (not None),
\* whose fixed_code is None or a string and whose errors is a list of strings.
C8_ParseAlwaysReturnsDocstring ==
    ppc = "return"
        => /\ DOMAIN parsed = {"docstring", "fixed_code", "errors"}
           /\ parsed.docstring /= PyNone
           /\ IsString(parsed.docstring)
           /\ parsed.fixed_code = PyNone \/ IsString(parsed.fixed_code)
           /\ \A k \in 1..Len(parsed.errors) : IsString(parsed.errors[k])

\* The parse of the empty response has returned, with an empty docstring
C8_Witness ==
    /\ ppc = "return"
    /\ response_text = <<>>
    /\ parsed.docstring = <<>>

\* Position of the first tok in s
FirstIndex(s, tok) ==
    CHOOSE n \in 1..Len(s) : s[n] = tok /\ \A j \in 1..(n - 1) : s[j] /= tok

\* The text before the first tok (all of s when there is none), and after it
BeforeFirst(s, tok) ==
    IF Contains(s, tok) THEN SubSeq(s, 1, FirstIndex(s, tok) - 1) ELSE s
AfterFirst(s, tok) == SubSeq(s, FirstIndex(s, tok) + 1, Len(s))

\* The whole response, cleaned, as the docstring
WholeResponseResult(text) ==
    [docstring |-> _clean_docstring(Strip(text)),
     fixed_code |-> PyNone,
     errors |-> <<>>]

AllMarkers(text) ==
    /\ Contains(text, DOCSTRING)
    /\ Contains(text, FIXED_CODE)
    /\ Contains(text, ERRORS_FOUND)

\* C9 as stated: a response without all three markers yields the cleaned
\* whole response as docstring, fixed_code None and no errors.
C9_AnyMissingMarkerFallsBack ==
    (ppc = "return" /\ ~AllMarkers(response_text))
        => parsed = WholeResponseResult(response_text)

\* C9 amended: a response without FIXED_CODE: yields the cleaned whole
\* response as docstring, fixed_code None and no errors; a response with
\* FIXED_CODE: but no ERRORS_FOUND: between the first FIXED_CODE: and the next
\* yields as docstring the cleaned text before the first FIXED_CODE: with
\* DOCSTRING: removed, fixed_code None and no errors.
C9_FallbackByFixedCodeMarker ==
    ppc = "return"
        => IF ~Contains(response_text, FIXED_CODE)
           THEN parsed = WholeResponseResult(response_text)
           ELSE LET before == BeforeFirst(response_text, FIXED_CODE)
                    after == BeforeFirst(AfterFirst(response_text, FIXED_CODE),
                                         FIXED_CODE)
                IN  ~Contains(after, ERRORS_FOUND)
                        => parsed =
                               [docstring |->
                                    _clean_docstring(
                                        Strip(Remove(before, DOCSTRING))),
                                fixed_code |-> PyNone,
                                errors |-> <<>>]

\* Both cases were parsed: here the one with FIXED_CODE: and no ERRORS_FOUND:,
\* where the docstring is not the whole response
C9_Witness ==
    /\ ppc = "return"
    /\ Contains(response_text, FIXED_CODE)
    /\ ~Contains(response_text, ERRORS_FOUND)
    /\ parsed.docstring = <<Hello>>
    /\ parsed /= WholeResponseResult(response_text)

\* A response of the requested shape: DOCSTRING:, then one FIXED_CODE:, then
\* one ERRORS_FOUND:
Shaped(text) ==
    /\ AllMarkers(text)
    /\ Cardinality({n \in 1..Len(text) : text[n] = FIXED_CODE}) = 1
    /\ Cardinality({n \in 1..Len(text) : text[n] = ERRORS_FOUND}) = 1
    /\ FirstIndex(text, FIXED_CODE) < FirstIndex(text, ERRORS_FOUND)

\* The trimmed FIXED_CODE and ERRORS_FOUND sections of a shaped response
FixedSection(text) ==
    Strip(BeforeFirst(AfterFirst(text, FIXED_CODE), ERRORS_FOUND))
ErrorsSection(text) == Strip(AfterFirst(text, ERRORS_FOUND))

\* The section holds ordinary text
RealContent(s) == Contains(s, Hello)

\* C10 as stated: fixed_code is None when the FIXED_CODE section is the
\* 'No fixes needed' sentinel and the trimmed section when it has real
\* content; errors is empty when the ERRORS_FOUND section is the 'None'
\* sentinel and the one-element list of the trimmed section when it has real
\* content; the response of the scenario gives 'Hello.', None, [].
C10_SentinelsSuppressOnlySentinels ==
    (ppc = "return" /\ Shaped(response_text))
        => LET fx == FixedSection(response_text)
               er == ErrorsSection(response_text)
           IN  /\ fx = <<NoFixesNeeded>> => parsed.fixed_code = PyNone
               /\ RealContent(fx) => parsed.fixed_code = fx
               /\ er = <<NoneWord>> => parsed.errors = <<>>
               /\ RealContent(er) => parsed.errors = <<er>>
               /\ response_text = ScenarioResponse
                      => parsed = [docstring |-> <<Hello>>,
                                   fixed_code |-> PyNone,
                                   errors |-> <<>>]

----------------------------------------------------------------------------
(* Properties of _clean_docstring, under SpecClean *)

\* C11: the output of _clean_docstring holds no code fence, neither starts
\* nor ends with a triple-quote delimiter of either style, has no leading or
\* trailing whitespace, and is returned unchanged when cleaned again.
C11_CleanedTextIsClean ==
    cpc = "return"
        => /\ ~Contains(cleaned, Fence) /\ ~Contains(cleaned, FencePython)
           /\ ~StartsWith(cleaned, TripleDouble)
           /\ ~EndsWith(cleaned, TripleDouble)
           /\ ~StartsWith(cleaned, TripleSingle)
           /\ ~EndsWith(cleaned, TripleSingle)
           /\ ~StartsWith(cleaned, Newline)
           /\ ~EndsWith(cleaned, Newline)
           /\ _clean_docstring(cleaned) = cleaned

----------------------------------------------------------------------------
(* Properties of _create_prompt, under SpecPrompt *)

\* The parameter list of the request: the text between the two labels
ParameterList(text) ==
    BeforeFirst(AfterFirst(text, ArgumentsLabel), ReturnTypeLabel)

\* C12: the parameter list of the request is the 'name: type' items of the
\* parameters in declaration order joined by commas, and the item of a
\* parameter with no declared type has an empty or no type, never a
\* placeholder text.
C12_UntypedParameterHasNoTypeText ==
    qpc = "return"
        => LET items == Split(ParameterList(prompt), ", ")
               args == prompt_info.args
           IN  /\ args /= <<>> => Len(items) = Len(args)
               /\ args = <<>> => ParameterList(prompt) = <<>>
               /\ \A k \in 1..Len(args) :
                      IF args[k].type = PyNone
                      THEN items[k] \in {<<args[k].name, ": ">>,
                                         <<args[k].name, ":">>,
                                         <<args[k].name>>}
                      ELSE items[k] = <<args[k].name, ": ">> \o args[k].type

----------------------------------------------------------------------------
(* Properties of CodeParser.parse_code, under SpecParser *)

\* C13: parse_code never raises; on text that cannot be parsed it returns an
\* empty sequence, records an error and sets accuracy to 0.0; on parseable
\* text with no recorded anomaly it sets accuracy to 100.0; after any call
\* accuracy is 0.0 exactly when the pass failed.
C13_ParseCodeNeverRaises ==
    /\ parser_pc /= "raised"
    /\ parser_pc = "returned"
           => /\ ~Parseable(source_code)
                      => /\ parse_returned = <<>>
                         /\ parser.errors /= <<>>
                         /\ parser.accuracy = 0
              /\ Parseable(source_code) /\ parser.errors = <<>>
                      => parser.accuracy = 100
              /\ parser.accuracy = 0 <=> ~Parseable(source_code)

\* C13 witness: a call on the too deeply nested text returned, after a call
\* that found functions
C13_Witness ==
    /\ parser_pc = "returned"
    /\ source_code = TooDeep
    /\ earlier.functions
    /\ parser.errors /= <<>>

----------------------------------------------------------------------------
(* Properties of one parse_code call, under SpecExtract *)

\* The lines of the text on which a function definition starts
FunctionDefinitions(src) ==
    {k \in 1..Len(src) : IsFunctionDefinition(src, k)}

\* C14: on parseable source, parse_code returns exactly one record per
\* function definition, nested functions and methods included, and the
\* source-line values are strictly increasing along the returned sequence.
C14_OneRecordPerDefinitionInOrder ==
    parser_pc = "returned" /\ Parseable(source_code)
        => /\ Len(parse_returned)
                  = Cardinality(FunctionDefinitions(source_code))
           /\ {parse_returned[n].lineno : n \in 1..Len(parse_returned)}
                  = FunctionDefinitions(source_code)
           /\ \A m, n \in 1..Len(parse_returned) :
                  m < n => parse_returned[m].lineno < parse_returned[n].lineno

\* The first statement of the body of the definition on line k is a string
\* literal
FirstStatementIsLiteral(src, k) ==
    /\ src[k].form \in Headers
    /\ src[k + 1].form \in {DocLine, BlankDocLine}

\* The first statement of the body of the definition on line k is a string
\* literal with text in it
FirstStatementIsText(src, k) ==
    /\ src[k].form \in Headers
    /\ src[k + 1].form = DocLine

\* existing_docstring is not None exactly for the units whose first body
\* statement is a string literal
DocstringIffLiteral ==
    \A n \in 1..Len(parse_returned) :
        parse_returned[n].existing_docstring /= PyNone
            <=> FirstStatementIsLiteral(source_code, parse_returned[n].lineno)

\* C15 as stated: existing_docstring is non-absent iff the first body
\* statement is a literal text block, and generate_docstring and
\* get_coverage_stats treat exactly the units with a non-absent
\* existing_docstring as documented, a blank text block included.
C15_ConsumersAgreeOnNonAbsent ==
    parser_pc = "returned"
        => /\ DocstringIffLiteral
           /\ \A n \in 1..Len(parse_returned) :
                  Truthy(parse_returned[n].existing_docstring)
                      <=> parse_returned[n].existing_docstring /= PyNone
           /\ coverage /= <<>>
                  => coverage[1].with_docstring
                         = Len(SelectSeq(
                               parse_returned,
                               LAMBDA f : f.existing_docstring /= PyNone))

\* C15 amended: existing_docstring is non-absent iff the first body
\* statement is a literal text block, and generate_docstring and
\* get_coverage_stats treat a unit as documented iff that text block is not
\* blank.
C15_ConsumersAgreeOnNonBlank ==
    parser_pc = "returned"
        => /\ DocstringIffLiteral
           /\ \A n \in 1..Len(parse_returned) :
                  Truthy(parse_returned[n].existing_docstring)
                      <=> FirstStatementIsText(source_code,
                                               parse_returned[n].lineno)
           /\ coverage /= <<>>
                  => /\ coverage[1].with_docstring
                            = Cardinality(
                                  {n \in 1..Len(parse_returned) :
                                       FirstStatementIsText(
                                           source_code,
                                           parse_returned[n].lineno)})
                     /\ coverage[1].total = Len(parse_returned)
                     /\ coverage[1].without_docstring
                            = coverage[1].total - coverage[1].with_docstring

\* C15 witness: the statistics were computed for a text with a function whose
\* first statement is a blank text block, and they count it as undocumented
C15_Witness ==
    /\ coverage /= <<>>
    /\ coverage[1].total > 0
    /\ coverage[1].with_docstring = 0
    /\ \E n \in 1..Len(parse_returned) :
           /\ parse_returned[n].existing_docstring = <<>>
           /\ ~Truthy(parse_returned[n].existing_docstring)

----------------------------------------------------------------------------
(* Properties of _get_function_body, under SpecBody *)

\* The lines a..b of the text, as far as the text goes
LinesThrough(a, b) ==
    SubSeq(body_source, a, IF b < Len(body_source) THEN b ELSE Len(body_source))

\* C16 as stated: the body text is the source lines from the declaration
\* line through the end line of the last body statement; when that end
\* cannot be taken from the body statements it is the declaration line plus
\* the following 10 lines.
C16_WindowOfTenFollowingLines ==
    bpc = "return"
        => IF stmt_has_end
           THEN body_text = LinesThrough(body_node.lineno,
                                         body_node.body_ends[1])
           ELSE body_text = LinesThrough(body_node.lineno,
                                         body_node.lineno + 10)

\* C16 amended: the body text is the source lines from the declaration line
\* through the end line of the last body statement; when that end cannot be
\* taken from the body statements it is the declaration line plus the
\* following 9 lines, ten lines in all, or fewer where the text ends sooner.
C16_WindowOfTenLines ==
    bpc = "return"
        => IF stmt_has_end
           THEN body_text = LinesThrough(body_node.lineno,
                                         body_node.body_ends[1])
           ELSE /\ body_text = LinesThrough(body_node.lineno,
                                            body_node.lineno + 9)
                /\ Len(body_text) <= 10

\* C16 witness: the window was taken in a text that goes on beyond it
C16_Witness ==
    /\ bpc = "return"
    /\ ~stmt_has_end
    /\ Len(body_source) > body_node.lineno + 9
    /\ Len(body_text) = 10
    /\ body_text[1] = body_node.lineno

----------------------------------------------------------------------------
(* Properties of repeated parse_code calls, under SpecParser *)

\* C17: extraction is deterministic and history-free: after any call, on an
\* instance with any earlier successful or failing calls, the unit sequence,
\* the errors list, the accuracy and the returned sequence are those that a
\* call with the same source text gives on a new instance, so functions and
\* errors of an earlier pass never appear in a later one.
C17_ExtractionHistoryFree ==
    parser_pc = "returned"
        => /\ parser = parse_code(NewParser, source_code).self
           /\ parse_returned = parse_code(NewParser, source_code).ret

\* C17 witness: earlier calls on the instance left functions and left errors,
\* and the last call, on a text with neither, shows none of them
C17_Witness ==
    /\ parser_pc = "returned"
    /\ earlier.functions
    /\ earlier.errors
    /\ parser.functions = <<>>
    /\ parser.errors = <<>>
    /\ parse_returned = <<>>

----------------------------------------------------------------------------
(* Properties of validate_code, under SpecValidator *)

\* C18: every result validate_code returns, on the normal path and on the
\* failure path, has summary.errors + summary.warnings = total_issues,
\* summary.errors = len(errors), summary.warnings = len(warnings),
\* compliant = summary.compliant and compliant >= 0.
C18_ResultCountsAgree ==
    vpc \in {"normal", "failed"}
        => /\ v_result.summary.errors + v_result.summary.warnings
                  = v_result.total_issues
           /\ v_result.summary.errors = Len(v_result.errors)
           /\ v_result.summary.warnings = Len(v_result.warnings)
           /\ v_result.compliant = v_result.summary.compliant
           /\ v_result.compliant \in Nat

\* C18 witness: a normal result with an error and a warning in it
C18_Witness ==
    /\ vpc = "normal"
    /\ v_result.errors /= <<>>
    /\ v_result.warnings /= <<>>
    /\ v_result.total_issues = 2

\* C19: on the normal path compliant = max(0, total_definable_units -
\* error_count), with total_definable_units the number of function and class
\* definitions of the validated text and error_count the number of
\* error-severity findings; documentation text and other text that is not a
\* definition does not count.
C19_CompliantFromDefinitions ==
    vpc = "normal"
        => v_result.compliant
               = MaxZeroDiff(Cardinality(DefinitionLines(v_merged)),
                             Len(v_result.errors))

\* The finding is attached to the definition on line k
AttachedTo(f, k) == f.line = k /\ f.definition /= "module"

\* C20: the compliant count is the number of documentable units of the
\* validated text that have no error-severity finding attached, whatever the
\* findings; a missing-documentation finding on the module does not reduce it.
C20_CompliantCountsCleanUnits ==
    vpc = "normal"
        => v_result.compliant
               = Cardinality(
                     {k \in DefinitionLines(v_merged) :
                          \A n \in 1..Len(v_result.errors) :
                              ~AttachedTo(v_result.errors[n], k)})

----------------------------------------------------------------------------
(* Properties of severities, failures and the temporary file, under
   SpecValidator *)

\* C21: validate_code places every finding of the rule engine in exactly one
\* of the lists errors and warnings, in the engine's order within each list,
\* and a finding is in errors iff its code is a D1xx missing-documentation
\* code; every other code is in warnings.
C21_ErrorsAreTheD1Codes ==
    vpc = "normal"
        => /\ v_result.errors
                  = SelectSeq(v_issues,
                              LAMBDA f : CodeStartsWith(f.code, "D1"))
           /\ v_result.warnings
                  = SelectSeq(v_issues,
                              LAMBDA f : ~CodeStartsWith(f.code, "D1"))

\* The severity of the list validate_code put the findings with this code in
ListSeverity(code) ==
    IF \E k \in 1..Len(v_result.errors) : v_result.errors[k].code = code
    THEN "error" ELSE "warning"

\* C22: severity is a function of the rule code alone and is the same
\* wherever it is computed: for every code of the result, the list
\* validate_code puts its findings in, the severity get_file_status reports
\* and the severity get_severity_color returns agree, the code ERROR of a
\* failed validation included.
C22_SeverityAgreesEverywhere ==
    spc = "colors"
        => \A k \in 1..Len(v_status) :
               /\ v_status[k].severity = ListSeverity(v_status[k].code)
               /\ v_colors[v_status[k].code] = v_status[k].severity

\* C23: validate_code never raises: a failure while splicing, while writing
\* the merged text or in the rule engine yields a result with exactly one
\* finding, in errors, with the code ERROR, no warnings, compliant 0 and
\* total_issues 1.
C23_ValidateCodeNeverRaises ==
    /\ vpc /= "raised"
    /\ vpc = "failed"
           => /\ Len(v_result.errors) = 1
              /\ v_result.errors[1].code = "ERROR"
              /\ v_result.warnings = <<>>
              /\ v_result.compliant = 0
              /\ v_result.total_issues = 1

\* C23 witness: documentation was spliced in and the engine could not parse
\* the merged text
C23_Witness ==
    /\ vpc = "failed"
    /\ v_merged /= <<>>
    /\ v_merged /= v_source
    /\ v_result.errors[1].code = "ERROR"

\* C24: the merged text is never persisted: when validate_code has returned,
\* on the normal path or after a failure, the temporary file it created no
\* longer exists, and the caller's source text and mapping are unchanged.
C24_TemporaryFileIsGone ==
    /\ [](vpc \in {"normal", "failed"} => temp_file /= "exists")
    /\ [][v_source' = v_source /\ v_generated' = v_generated]_vars

----------------------------------------------------------------------------
(* Properties of the insertion routines, under SpecSplice *)

\* The units parse_code extracts from the text the routine was given
UnitsBefore == parse_code(NewParser, splice_source).ret

\* C25: round trip: for a unit without documentation and a generated
\* documentation text, inserting the text after the unit's definition with
\* validator._insert_docstrings or MainWindow._insert_docstrings_into_code
\* and running parse_code on the result yields a unit of the same name whose
\* existing_docstring is that text.
C25_InsertThenExtractRecovers ==
    /\ splice_routine \in {"_insert_docstrings", "_insert_docstrings_into_code"}
    /\ splice_result.status = "generated"
    /\ splice_units /= <<>>
    => \A n \in 1..Len(UnitsBefore) :
           UnitsBefore[n].existing_docstring = PyNone
               => /\ n <= Len(splice_units[1].ret)
                  /\ splice_units[1].ret[n].name = UnitsBefore[n].name
                  /\ splice_units[1].ret[n].existing_docstring
                         = splice_result.docstring

\* C26: documentation insertion is idempotent: each routine, applied to what
\* it returned with the same documentation, returns exactly the text of the
\* first application.
C26_InsertionIsIdempotent ==
    Len(splice_outputs) >= 2 => splice_outputs[2] = splice_outputs[1]

----------------------------------------------------------------------------
(* Properties of the window, under SpecWindow *)

\* The text download_output wrote was built from the text that is loaded
\* now and from results of a pass over the units of that text
SavedFromCurrentText ==
    /\ w_saved.load /= 0
    /\ w_saved.load = w_loads
    /\ w_saved.from.load = w_loads

\* Every line of kept is in built, in the same order
RECURSIVE IsSubseq(_, _)
IsSubseq(kept, built) ==
    IF kept = <<>> THEN TRUE
    ELSE IF built = <<>> THEN FALSE
    ELSE IF Head(kept) = Head(built)
    THEN IsSubseq(Tail(kept), Tail(built))
    ELSE IsSubseq(kept, Tail(built))

\* The lines of a text that are not a documentation literal without text,
\* the only documentation a generated block replaces
KeptLines(lines) == SelectSeq(lines, LAMBDA l : l.form /= BlankDocLine)

\* C27: existing documentation is never overwritten: in the text
\* _insert_docstrings_into_code builds after a generation pass over the
\* loaded text, no block is inserted in front of the documentation a
\* function already carried, also when another function of the same name
\* lacks documentation, and every source line that is not part of a
\* replaced documentation block is kept, in order.
C27_ExistingDocumentationIsKept ==
    SavedFromCurrentText
        => /\ ~\E j \in 1..(Len(w_saved.output) - 4) :
                  /\ w_saved.output[j].form = DefLine
                  /\ w_saved.output[j + 1].form = QuoteLine
                  /\ w_saved.output[j + 4].form = DocLine
                  /\ w_saved.output[j + 4].indent > w_saved.output[j].indent
           /\ IsSubseq(KeptLines(w_source_code), w_saved.output)

\* C28: no state survives a new source load: a generation pass is started
\* only over units parsed from the text that is loaded at that moment, and
\* validate_docstrings and download_output combine the loaded text only
\* with results of a pass over the units of that text.
C28_NothingSurvivesALoad ==
    /\ \A t \in w_threads : t.load = t.source_load
    /\ w_validated.load /= 0 => w_validated.from.load = w_validated.load
    /\ w_saved.load /= 0 => w_saved.from.load = w_saved.load

\* C29: what is validated is what is saved: for the same loaded text and
\* the results of the same pass, the merged text validate_code builds with
\* _insert_docstrings is the text _insert_docstrings_into_code builds for
\* the download, and documentation of a result with the status error is in
\* neither.
C29_ValidatedIsSaved ==
    /\ (/\ w_validated.load /= 0
        /\ w_validated.load = w_saved.load
        /\ w_validated.from = w_saved.from)
           => Fold(w_saved.output) = w_validated.merged
    /\ \A k \in 1..Len(w_validated.merged) :
           w_validated.merged[k].form /= ErrorDocLine

\* C30: at most one generation pass is in flight at any time, and once every
\* started GeneratorThread has finished, generated_docstrings holds the
\* results of the pass that was requested last.
C30_OnePassInFlight ==
    w_pc = "running"
        => /\ Cardinality(w_threads) <= 1
           /\ (w_threads = {} /\ w_requests > 0)
                  => w_generated_from.request = w_requests

====
